---- MODULE Spec2Model ----
(***************************************************************************)
(* A model of terndata.flux: the THREDDS catalog resolver (utils.py) and   *)
(* the dataset access and subsetting functions (flux_api.py).              *)
(*                                                                         *)
(* Text is modelled as a sequence of one-character strings, so that        *)
(* str.replace, str.split, str.endswith, str.lower and str.format_map are  *)
(* computed as Python computes them.  Error messages and variable names    *)
(* are sequences whose literal parts are kept as single chunks.            *)
(***************************************************************************)
EXTENDS Integers, Sequences, FiniteSets, TLC

VARIABLES pc, call, ret, prev

vars == <<pc, call, ret, prev>>

(***************************************************************************)
(* Python str primitives.                                                  *)
(***************************************************************************)

\* s[i : i + len(pat)] == pat
StartsAt(s, i, pat) ==
    /\ i + Len(pat) - 1 <= Len(s)
    /\ SubSeq(s, i, i + Len(pat) - 1) = pat

\* str.endswith
EndsWith(s, suffix) ==
    /\ Len(suffix) <= Len(s)
    /\ SubSeq(s, Len(s) - Len(suffix) + 1, Len(s)) = suffix

\* str.startswith
StartsWith(s, prefix) == StartsAt(s, 1, prefix)

\* pat in s
Contains(s, pat) == \E i \in 1..(Len(s) + 1) : StartsAt(s, i, pat)

\* The places at or after i where pat occurs in s.
OccurrencesFrom(s, i, pat) == {j \in i..Len(s) : StartsAt(s, j, pat)}

Least(S) == CHOOSE m \in S : \A x \in S : m <= x

RECURSIVE ReplaceFrom(_, _, _, _)
ReplaceFrom(s, i, old, new) ==
    IF OccurrencesFrom(s, i, old) = {} THEN SubSeq(s, i, Len(s))
    ELSE LET j == Least(OccurrencesFrom(s, i, old))
         IN  SubSeq(s, i, j - 1) \o new \o ReplaceFrom(s, j + Len(old), old, new)

RECURSIVE SplitFrom(_, _, _)
SplitFrom(s, i, sep) ==
    IF OccurrencesFrom(s, i, <<sep>>) = {} THEN <<SubSeq(s, i, Len(s))>>
    ELSE LET j == Least(OccurrencesFrom(s, i, <<sep>>))
         IN  <<SubSeq(s, i, j - 1)>> \o SplitFrom(s, j + 1, sep)

\* str.split(sep) for a one-character separator: always at least one part.
Split(s, sep) == SplitFrom(s, 1, sep)

\* str.replace(old, new): every non-overlapping occurrence, left to right
\* (old is never empty here).
Replace(s, old, new) == ReplaceFrom(s, 1, old, new)

(***************************************************************************)
(* utils.py: get_catalog_url                                               *)
(***************************************************************************)

\* "https://dap.tern.org.au/thredds/catalog/ecosystem_process/ozflux/"
BaseUrl ==
    <<"h","t","t","p","s",":","/","/","d","a","p",".","t","e","r","n",".",
      "o","r","g",".","a","u","/","t","h","r","e","d","d","s","/","c","a",
      "t","a","l","o","g","/","e","c","o","s","y","s","t","e","m","_","p",
      "r","o","c","e","s","s","/","o","z","f","l","u","x","/">>

\* "catalog.xml"
CatalogXml == <<"c","a","t","a","l","o","g",".","x","m","l">>

\* "default"
DefaultDir == <<"d","e","f","a","u","l","t">>

Slash == <<"/">>

\* A result: a returned value, or a raised exception with its message.
Ok(v) == [ok |-> TRUE, exc |-> "", val |-> v]
Raise(e, m) == [ok |-> FALSE, exc |-> e, val |-> m]

\* A template piece is a literal text or a replacement field {name}.
Lit(t) == [field |-> "", text |-> t]
Field(f) == [field |-> f, text |-> <<>>]

\* A slip that leaves the version out of the processing-level path.
url_subpath_NoVersion ==
    [site |-> <<>>,
     version |-> <<Field("site"), Lit(Slash)>>,
     processing_level |-> <<Field("site"), Lit(Slash)>>,
     dataset |-> <<Field("site"), Lit(Slash), Field("version"), Lit(Slash),
                   Field("processing_level"), Lit(Slash), Lit(DefaultDir), Lit(Slash)>>]

\* url_subpath: the per-kind path templates.
url_subpath ==
    [site |-> <<>>,
     version |-> <<Field("site"), Lit(Slash)>>,
     processing_level |-> <<Field("site"), Lit(Slash), Field("version"), Lit(Slash)>>,
     dataset |-> <<Field("site"), Lit(Slash), Field("version"), Lit(Slash),
                   Field("processing_level"), Lit(Slash), Lit(DefaultDir), Lit(Slash)>>]

RECURSIVE FormatFrom(_, _, _)
FormatFrom(tpl, i, params) ==
    IF i > Len(tpl) THEN <<>>
    ELSE (IF tpl[i].field = "" THEN tpl[i].text ELSE params[tpl[i].field])
         \o FormatFrom(tpl, i + 1, params)

\* The first replacement field that params lacks, "" when none.
RECURSIVE MissingFrom(_, _, _)
MissingFrom(tpl, i, params) ==
    IF i > Len(tpl) THEN ""
    ELSE IF tpl[i].field # "" /\ tpl[i].field \notin DOMAIN params
         THEN tpl[i].field
         ELSE MissingFrom(tpl, i + 1, params)

\* str.format_map(params): KeyError on the first field params lacks.
format_map(tpl, params) ==
    IF MissingFrom(tpl, 1, params) # ""
    THEN Raise("KeyError", <<"'", MissingFrom(tpl, 1, params), "'">>)
    ELSE Ok(FormatFrom(tpl, 1, params))

\* A slip that accepts a kind by its prefix ("sites" as "site").
get_catalog_url_PrefixMatch(obj, params) ==
    LET kind == IF obj = "sites" THEN "site"
                ELSE IF obj = "datasets" THEN "dataset" ELSE obj
    IN  IF kind \notin DOMAIN url_subpath
        THEN Raise("ValueError", <<"Invalid ", "'", obj, "'", " catalog item object">>)
        ELSE LET subpath == format_map(url_subpath[kind], params)
             IN  IF subpath.ok
                 THEN Ok(BaseUrl \o subpath.val \o CatalogXml)
                 ELSE subpath

get_catalog_url(obj, params) ==
    IF obj \notin DOMAIN url_subpath
    THEN Raise("ValueError", <<"Invalid ", "'", obj, "'", " catalog item object">>)
    ELSE LET subpath == format_map(url_subpath[obj], params)
         IN  IF subpath.ok
             THEN Ok(BaseUrl \o subpath.val \o CatalogXml)
             ELSE subpath

(***************************************************************************)
(* Inputs of get_catalog_url.                                              *)
(***************************************************************************)

\* The object kinds tried: the four recognised ones and near misses.
ObjKinds == {"site", "version", "processing_level", "dataset",
             "sites", "Site", "", "datasets", "catalog"}

ParamKeys == {"site", "version", "processing_level"}

\* Parameter values: "", "a", "b", "a/a".
ParamStrs == {<<>>, <<"a">>, <<"b">>, <<"a", "/", "a">>}

ParamMaps == UNION {[K -> ParamStrs] : K \in SUBSET ParamKeys}

NoCall == <<>>

(***************************************************************************)
(* SpecUrl: a client calls get_catalog_url MaxUrlCalls times with the same *)
(* object kind; prev keeps the previous call and its result.               *)
(***************************************************************************)
MaxUrlCalls == 2

InitUrl ==
    /\ pc = "call"
    /\ call \in [obj : ObjKinds, params : ParamMaps, n : {1}]
    /\ ret = Ok(<<>>)
    /\ prev = NoCall

GetCatalogUrl ==
    /\ pc = "call"
    /\ ret' = get_catalog_url(call.obj, call.params)
    /\ pc' = "done"
    /\ UNCHANGED <<call, prev>>

NextUrlCall ==
    /\ pc = "done"
    /\ call.n < MaxUrlCalls
    /\ prev' = <<[call |-> call, ret |-> ret]>>
    /\ \E p \in ParamMaps : call' = [obj |-> call.obj, params |-> p, n |-> call.n + 1]
    /\ pc' = "call"
    /\ UNCHANGED ret

NextUrl == GetCatalogUrl \/ NextUrlCall

SpecUrl == InitUrl /\ [][NextUrl]_vars

RecognisedKinds == {"site", "version", "processing_level", "dataset"}

\* The parameters each kind's URL is built from.
UsedKeys(obj) ==
    CASE obj = "site" -> {}
      [] obj = "version" -> {"site"}
      [] obj = "processing_level" -> {"site", "version"}
      [] obj = "dataset" -> {"site", "version", "processing_level"}
      [] OTHER -> {}

\* C1: get_catalog_url returns base + the kind's path + "catalog.xml" for the
\* four recognised kinds (given the parameters the kind needs), and raises
\* ValueError, returning no URL, for every other kind string.
C1_UrlPerKind ==
    pc = "done" =>
        LET p == call.params
        IN  /\ call.obj \notin RecognisedKinds =>
                  ~ret.ok /\ ret.exc = "ValueError"
            /\ call.obj = "site" => ret = Ok(BaseUrl \o CatalogXml)
            /\ (call.obj = "version" /\ {"site"} \subseteq DOMAIN p) =>
                  ret = Ok(BaseUrl \o p.site \o <<"/">> \o CatalogXml)
            /\ (call.obj = "processing_level"
                    /\ {"site", "version"} \subseteq DOMAIN p) =>
                  ret = Ok(BaseUrl \o p.site \o <<"/">> \o p.version \o <<"/">>
                           \o CatalogXml)
            /\ (call.obj = "dataset" /\ ParamKeys \subseteq DOMAIN p) =>
                  ret = Ok(BaseUrl \o p.site \o <<"/">> \o p.version \o <<"/">>
                           \o p.processing_level \o <<"/">> \o DefaultDir
                           \o <<"/">> \o CatalogXml)

\* C1 witness: a dataset URL was built from three parameters.
C1_Witness ==
    /\ pc = "done"
    /\ call.obj = "dataset"
    /\ ret.ok
    /\ call.params = [site |-> <<"a">>, version |-> <<"b">>,
                      processing_level |-> <<"a">>]

\* Two parameter mappings differ for a kind when they differ on a parameter
\* the kind's template uses.
DifferOnUsed(obj, p, q) == \E k \in UsedKeys(obj) : p[k] # q[k]

NoSlash(obj, p) == \A k \in UsedKeys(obj) : ~Contains(p[k], Slash)

HasUsed(obj, p) == UsedKeys(obj) \subseteq DOMAIN p

BothUrlsBuilt ==
    /\ pc = "done"
    /\ prev # NoCall
    /\ ret.ok
    /\ prev[1].ret.ok
    /\ HasUsed(call.obj, call.params)
    /\ HasUsed(call.obj, prev[1].call.params)

\* The path segments of a URL between the base and the trailing catalog.xml.
UrlSegments(url) ==
    Split(SubSeq(url, Len(BaseUrl) + 1, Len(url) - Len(CatalogXml)), "/")

\* The number of "/"-separated parts of the kind's path (the last is empty).
PathSegments(obj) ==
    CASE obj = "site" -> 1
      [] obj = "version" -> 2
      [] obj = "processing_level" -> 3
      [] obj = "dataset" -> 5

\* The parameters read back from a URL of the kind.
ParamsOfUrl(obj, url) ==
    LET seg == UrlSegments(url)
    IN  CASE obj = "version" -> [site |-> seg[1]]
          [] obj = "processing_level" -> [site |-> seg[1], version |-> seg[2]]
          [] obj = "dataset" -> [site |-> seg[1], version |-> seg[2],
                                 processing_level |-> seg[3]]
          [] OTHER -> <<>>

\* C2 as stated: for each kind, two parameter mappings that differ never
\* produce the same URL.
C2_Injective ==
    (BothUrlsBuilt /\ DifferOnUsed(call.obj, call.params, prev[1].call.params))
        => ret.val # prev[1].ret.val

\* C2 amended: for each kind, two parameter mappings that differ on a used
\* parameter and whose values hold no "/" never produce the same URL, and the
\* parameters are read back from the URL by splitting its path on "/".
C2_InjectiveNoSlash ==
    /\ (BothUrlsBuilt
          /\ DifferOnUsed(call.obj, call.params, prev[1].call.params)
          /\ NoSlash(call.obj, call.params)
          /\ NoSlash(call.obj, prev[1].call.params))
        => ret.val # prev[1].ret.val
    /\ (pc = "done" /\ ret.ok /\ HasUsed(call.obj, call.params)
          /\ NoSlash(call.obj, call.params)) =>
          /\ Len(UrlSegments(ret.val)) = PathSegments(call.obj)
          /\ \A k \in UsedKeys(call.obj) :
                ParamsOfUrl(call.obj, ret.val)[k] = call.params[k]

\* C2 witness: two slash-free parameter mappings that differ in the version
\* gave two different processing-level URLs.
C2_Witness ==
    /\ BothUrlsBuilt
    /\ call.obj = "processing_level"
    /\ NoSlash(call.obj, call.params)
    /\ NoSlash(call.obj, prev[1].call.params)
    /\ call.params.site = prev[1].call.params.site
    /\ call.params.version # prev[1].call.params.version
    /\ ret.val # prev[1].ret.val


(***************************************************************************)
(* utils.py: get_catalog_items                                             *)
(***************************************************************************)

UpperLetters == <<"A","B","C","D","E","F","G","H","I","J","K","L","M","N","O","P","Q","R","S","T","U","V","W","X","Y","Z">>

LowerLetters == <<"a","b","c","d","e","f","g","h","i","j","k","l","m","n","o","p","q","r","s","t","u","v","w","x","y","z">>

LowerChar(c) ==
    IF \E i \in 1..Len(UpperLetters) : UpperLetters[i] = c
    THEN LowerLetters[CHOOSE i \in 1..Len(UpperLetters) : UpperLetters[i] = c]
    ELSE c

\* str.lower
Lower(s) == [i \in 1..Len(s) |-> LowerChar(s[i])]

\* DEFAULT_DATASET = "30min"
DEFAULT_DATASET == <<"3","0","m","i","n">>

\* ".nc"
NcExt == <<".","n","c">>

\* "/catalog/" and "/dodsC/"
CatalogSeg == <<"/","c","a","t","a","l","o","g","/">>

DodsCSeg == <<"/","d","o","d","s","C","/">>

\* The temporal-aggregation labels, in list order: daily, monthly, annual,
\* cumulative, summary.
DatasetLabels ==
    {<<"d","a","i","l","y">>,
     <<"m","o","n","t","h","l","y">>,
     <<"a","n","n","u","a","l">>,
     <<"c","u","m","u","l","a","t","i","v","e">>,
     <<"s","u","m","m","a","r","y">>}

\* The XML namespace of the THREDDS InvCatalog v1.0 schema, and any other.
xmlns == "thredds"

\* An element of the parsed document: its namespace, local tag, the name
\* attribute and the xlink:href attribute.
Element(ns, tag, name, href) == [ns |-> ns, tag |-> tag, name |-> name, href |-> href]

Range(f) == {f[x] : x \in DOMAIN f}

\* dict[key] = value
SetItem(d, k, v) == [x \in DOMAIN d \cup {k} |-> IF x = k THEN v ELSE d[x]]

EmptyDict == <<>>

\* The label of a dataset file name that ends in ".nc" (the slip: two parts
\* are enough).
ds_name_TwoParts(name) ==
    LET parts == Split(SubSeq(name, 1, Len(name) - 3), "_")
    IN  IF Len(parts) >= 2 /\ Lower(parts[Len(parts)]) \in DatasetLabels
        THEN Lower(parts[Len(parts)])
        ELSE DEFAULT_DATASET

\* The label of a dataset file name that ends in ".nc".
ds_name(name) ==
    LET parts == Split(SubSeq(name, 1, Len(name) - 3), "_")
    IN  IF Len(parts) >= 3 /\ Lower(parts[Len(parts)]) \in DatasetLabels
        THEN Lower(parts[Len(parts)])
        ELSE DEFAULT_DATASET

\* The reference stored for a catalogRef element.
CatalogRefUrl(url, item) == Replace(url, CatalogXml, item.href)

\* The reference stored for a dataset element.
DatasetUrl(url, item) ==
    Replace(Replace(url, CatalogXml, item.name), CatalogSeg, DodsCSeg)

\* The slip: an entry already present is kept (first writer wins).
AddReference_KeepFirst(references, url, itype, item) ==
    IF itype = "catalogRef"
    THEN IF item.name \in DOMAIN references THEN references
         ELSE SetItem(references, item.name, CatalogRefUrl(url, item))
    ELSE IF EndsWith(item.name, NcExt)
         THEN IF ds_name(item.name) \in DOMAIN references THEN references
              ELSE SetItem(references, ds_name(item.name), DatasetUrl(url, item))
         ELSE references

\* The loop body: what one matching element adds to references.
AddReference(references, url, itype, item) ==
    IF itype = "catalogRef"
    THEN SetItem(references, item.name, CatalogRefUrl(url, item))
    ELSE IF EndsWith(item.name, NcExt)
         THEN SetItem(references, ds_name(item.name), DatasetUrl(url, item))
         ELSE references

\* The slip: the tag is matched without its namespace.
Matches_AnyNamespace(item, itype) == item.tag = itype

\* tree.iter(f"{xmlns}{itype}") yields the elements with that qualified tag.
Matches(item, itype) == item.ns = xmlns /\ item.tag = itype

RECURSIVE IterItems(_, _, _, _, _)
IterItems(doc, i, url, itype, references) ==
    IF i > Len(doc) THEN references
    ELSE IterItems(doc, i + 1, url, itype,
                   IF Matches(doc[i], itype)
                   THEN AddReference(references, url, itype, doc[i])
                   ELSE references)

\* The message of the HTTPError raised by raise_for_status.
HttpErrorMsg(status, url) ==
    <<ToString(status), IF status < 500 THEN " Client Error" ELSE " Server Error",
      " for url: ">>
    \o url

\* resp is what the server answers for url: a status, whether the body is
\* well-formed XML, and the elements of the document in document order.
get_catalog_items(url, itype, resp) ==
    IF resp.status >= 400
    THEN Raise("HTTPError", HttpErrorMsg(resp.status, url))
    ELSE IF ~resp.wellformed
    THEN Raise("ParseError", <<"syntax error: line 1, column 0">>)
    ELSE Ok(IterItems(resp.doc, 1, url, itype, EmptyDict))


(***************************************************************************)
(* The remote server, as the library sees it: the answer to a GET of a     *)
(* catalog URL, and the file behind a data-access URL.                     *)
(***************************************************************************)

Response(status, wellformed, doc) ==
    [status |-> status, wellformed |-> wellformed, doc |-> doc]

Server(catalog, files) == [catalog |-> catalog, files |-> files]

\* session.get(url): a URL the server does not know answers 404.
Fetch(srv, url) ==
    IF url \in DOMAIN srv.catalog THEN srv.catalog[url]
    ELSE Response(404, TRUE, <<>>)

\* xr.open_dataset(url, engine="netcdf4"): the file, or an OSError.
open_dataset(srv, url) ==
    IF url \in DOMAIN srv.files THEN Ok(srv.files[url])
    ELSE Raise("OSError",
               <<"[Errno -90] NetCDF: file not found: ", "'">> \o url \o <<"'">>)

\* The I/O a call performs, in order.
Get(url) == [op |-> "GET", url |-> url]
Open(url) == [op |-> "OPEN", url |-> url]

\* The result of an API call: as Ok/Raise, with the I/O it performed.
ApiOk(v, io) == [ok |-> TRUE, exc |-> "", val |-> v, io |-> io]
ApiRaise(e, m, io) == [ok |-> FALSE, exc |-> e, val |-> m, io |-> io]

(***************************************************************************)
(* Datasets (xarray.Dataset) and the xarray operations the library uses.   *)
(***************************************************************************)

\* FLUX_MISSING_VALUE = -9999
FLUX_MISSING_VALUE == -9999

\* A cell holds a number or not-a-number.
Num(v) == <<v>>
NaN == <<>>

\* A variable: its dimensions, its cells (along time when it has the time
\* dimension, one cell otherwise), its attrs and its encoding.
Variable(dims, data, attrs, encoding) ==
    [dims |-> dims, data |-> data, attrs |-> attrs, encoding |-> encoding]

\* A dataset: global attrs, the names of its coordinates, its variables
\* (coordinates included, as in Dataset.variables) and the URL it was opened
\* from.
Dataset(attrs, coords, variables, source) ==
    [attrs |-> attrs, coords |-> coords, variables |-> variables, source |-> source]

NoAttrs == <<>>

DelItem(d, k) == [x \in DOMAIN d \ {k} |-> d[x]]

\* CF decoding of one variable (xr.decode_cf, mask step): when attrs declare
\* a missing_value, the cells equal to it become NaN and the attribute moves
\* to the encoding; a variable that declares none is left as it is.
decode_cf_variable(var) ==
    IF "missing_value" \in DOMAIN var.attrs
    THEN Variable(var.dims,
                  [i \in 1..Len(var.data) |->
                      IF var.data[i] = var.attrs["missing_value"] THEN NaN
                      ELSE var.data[i]],
                  DelItem(var.attrs, "missing_value"),
                  SetItem(var.encoding, "missing_value", var.attrs["missing_value"]))
    ELSE var

\* xr.decode_cf(dataset): every variable is decoded.
decode_cf(ds) ==
    Dataset(ds.attrs, ds.coords,
            [n \in DOMAIN ds.variables |-> decode_cf_variable(ds.variables[n])],
            ds.source)

\* The slip: the sentinel is declared for coordinate variables too.
SetMissingValue_AllVariables(ds) ==
    Dataset(ds.attrs, ds.coords,
            [n \in DOMAIN ds.variables |->
                Variable(ds.variables[n].dims, ds.variables[n].data,
                         SetItem(ds.variables[n].attrs, "missing_value",
                                 Num(FLUX_MISSING_VALUE)),
                         ds.variables[n].encoding)],
            ds.source)

\* The loop of _get_dataset: every variable that is not a coordinate gets
\* attrs["missing_value"] = FLUX_MISSING_VALUE.
SetMissingValue(ds) ==
    Dataset(ds.attrs, ds.coords,
            [n \in DOMAIN ds.variables |->
                IF n \in ds.coords THEN ds.variables[n]
                ELSE Variable(ds.variables[n].dims, ds.variables[n].data,
                              SetItem(ds.variables[n].attrs, "missing_value",
                                      Num(FLUX_MISSING_VALUE)),
                              ds.variables[n].encoding)],
            ds.source)

(***************************************************************************)
(* flux_api.py                                                             *)
(***************************************************************************)

\* "L6"
L6 == <<"L","6">>

_get_dataset(srv, url, missing_as_nan) ==
    LET dataset == open_dataset(srv, url)
    IN  IF ~dataset.ok THEN ApiRaise(dataset.exc, dataset.val, <<Open(url)>>)
        ELSE IF missing_as_nan
        THEN ApiOk(decode_cf(SetMissingValue(dataset.val)), <<Open(url)>>)
        ELSE ApiOk(dataset.val, <<Open(url)>>)

\* get_catalog_items against the server, with the GET it performs.
catalog_items(srv, url, itype) ==
    LET items == get_catalog_items(url, itype, Fetch(srv, url))
    IN  IF items.ok THEN ApiOk(items.val, <<Get(url)>>)
        ELSE ApiRaise(items.exc, items.val, <<Get(url)>>)

\* utils.get_dataset_urls
get_dataset_urls(srv, site, version, processing_level) ==
    LET cat_url == get_catalog_url("dataset",
                       [site |-> site, version |-> version,
                        processing_level |-> processing_level])
    IN  IF ~cat_url.ok THEN ApiRaise(cat_url.exc, cat_url.val, <<>>)
        ELSE catalog_items(srv, cat_url.val, "dataset")

\* f"'{text}'"
Quoted(text) == <<"'">> \o text \o <<"'">>

\* str(KeyError(key)) for a text key: the key in quotes.
KeyErrorMsg(key) == Quoted(key)

VersionsErrorPrefix(site) ==
    <<"Error: fail to get versions for site ">> \o Quoted(site) \o <<": ">>

get_versions(srv, site) ==
    LET cat_url == get_catalog_url("version", [site |-> site])
        items == catalog_items(srv, cat_url.val, "catalogRef")
    IN  IF ~cat_url.ok
        THEN ApiRaise("Exception", VersionsErrorPrefix(site) \o cat_url.val, <<>>)
        ELSE IF ~items.ok
        THEN ApiRaise("Exception", VersionsErrorPrefix(site) \o items.val, items.io)
        ELSE ApiOk(DOMAIN items.val, items.io)

LevelsErrorPrefix(site, version) ==
    <<"Error: fail to get processing-levels for site ">> \o Quoted(site)
    \o <<", version ">> \o Quoted(version) \o <<": ">>

get_processing_levels(srv, site, version) ==
    LET cat_url == get_catalog_url("processing_level",
                                   [site |-> site, version |-> version])
        items == catalog_items(srv, cat_url.val, "catalogRef")
    IN  IF ~cat_url.ok
        THEN ApiRaise("Exception", LevelsErrorPrefix(site, version) \o cat_url.val, <<>>)
        ELSE IF ~items.ok
        THEN ApiRaise("Exception", LevelsErrorPrefix(site, version) \o items.val,
                      items.io)
        ELSE ApiOk(DOMAIN items.val, items.io)

DatasetErrorPrefix(site, version, processing_level) ==
    <<"Error: fail to get dataset for site ">> \o Quoted(site)
    \o <<", version ">> \o Quoted(version)
    \o <<", processing-level ">> \o Quoted(processing_level) \o <<": ">>

get_dataset(srv, site, version, processing_level, missing_as_nan) ==
    LET prefix == DatasetErrorPrefix(site, version, processing_level)
        dataset_urls == get_dataset_urls(srv, site, version, processing_level)
    IN  IF ~dataset_urls.ok
        THEN ApiRaise("Exception", prefix \o dataset_urls.val, dataset_urls.io)
        ELSE IF DEFAULT_DATASET \notin DOMAIN dataset_urls.val
        THEN ApiRaise("Exception", prefix \o KeyErrorMsg(DEFAULT_DATASET),
                      dataset_urls.io)
        ELSE LET dataset == _get_dataset(srv, dataset_urls.val[DEFAULT_DATASET],
                                         missing_as_nan)
             IN  IF ~dataset.ok
                 THEN ApiRaise("Exception", prefix \o dataset.val,
                               dataset_urls.io \o dataset.io)
                 ELSE ApiOk(dataset.val, dataset_urls.io \o dataset.io)

L6ErrorPrefix(site, version) ==
    <<"Error: fail to get L6 dataset for site ">> \o Quoted(site)
    \o <<", version ">> \o Quoted(version) \o <<": ">>

NotFoundMsg(ds_type) ==
    <<"Requested ">> \o Quoted(ds_type) \o <<" dataset is not found!">>

\* The slip: a missing dataset type is reported without the operation's
\* prefix and parameters.
get_l6_dataset_Unwrapped(srv, site, version, ds_type, missing_as_nan) ==
    LET prefix == L6ErrorPrefix(site, version)
        dataset_urls == get_dataset_urls(srv, site, version, L6)
    IN  IF ~dataset_urls.ok
        THEN ApiRaise("Exception", prefix \o dataset_urls.val, dataset_urls.io)
        ELSE IF ds_type \notin DOMAIN dataset_urls.val
        THEN ApiRaise("Exception", NotFoundMsg(ds_type), dataset_urls.io)
        ELSE LET dataset == _get_dataset(srv, dataset_urls.val[ds_type],
                                         missing_as_nan)
             IN  IF ~dataset.ok
                 THEN ApiRaise("Exception", prefix \o dataset.val,
                               dataset_urls.io \o dataset.io)
                 ELSE ApiOk(dataset.val, dataset_urls.io \o dataset.io)

get_l6_dataset(srv, site, version, ds_type, missing_as_nan) ==
    LET prefix == L6ErrorPrefix(site, version)
        dataset_urls == get_dataset_urls(srv, site, version, L6)
    IN  IF ~dataset_urls.ok
        THEN ApiRaise("Exception", prefix \o dataset_urls.val, dataset_urls.io)
        ELSE IF ds_type \notin DOMAIN dataset_urls.val
        THEN ApiRaise("Exception", prefix \o NotFoundMsg(ds_type), dataset_urls.io)
        ELSE LET dataset == _get_dataset(srv, dataset_urls.val[ds_type],
                                         missing_as_nan)
             IN  IF ~dataset.ok
                 THEN ApiRaise("Exception", prefix \o dataset.val,
                               dataset_urls.io \o dataset.io)
                 ELSE ApiOk(dataset.val, dataset_urls.io \o dataset.io)

(***************************************************************************)
(* flux_api.py: get_subset                                                 *)
(***************************************************************************)

\* Time is counted in half seconds, so that a timestamp may carry a fraction
\* of a second: the length of a second, of half an hour and of a day.
Second == 2

Minute == 120

HalfHour == 3600

Day == 172800

TimeName == <<"time">>

\* The characters of names and versions in code-point order: str comparison
\* (max of the version strings) goes by code point.
CodePoints ==
    <<"-",".","/","0","1","2","3","4","5","6","7","8","9","A","B","C","D","E","F","G","H","I","J","K","L","M","N","O","P","Q","R","S","T","U","V","W","X","Y","Z","_","a","b","c","d","e","f","g","h","i","j","k","l","m","n","o","p","q","r","s","t","u","v","w","x","y","z">>

Ord(c) == CHOOSE i \in 1..Len(CodePoints) : CodePoints[i] = c

\* a < b for two texts, as Python compares str.
StrLess(a, b) ==
    \E i \in 1..Len(b) :
        /\ \A j \in 1..(i - 1) : j <= Len(a) /\ a[j] = b[j]
        /\ \/ i = Len(a) + 1
           \/ i <= Len(a) /\ Ord(a[i]) < Ord(b[i])

\* max(strs) for a non-empty collection of distinct texts.
StrMax(strs) == CHOOSE m \in strs : \A x \in strs : x = m \/ StrLess(x, m)

\* An optional argument: None, or a value.
None == <<>>
Some(v) == <<v>>

\* A start or end argument: None, a datetime, or a str.  A str is kept by
\* what it parses to: whether datetime.fromisoformat accepts it, the precision
\* it is written to ("day" for yyyy-mm-dd, "minute" for yyyy-mm-dd HH:MM,
\* "second" for yyyy-mm-dd HH:MM:SS, "empty" for "", "bad" for any other
\* text) and the instant it names.
NoBound == [kind |-> "none", iso |-> FALSE, reso |-> "", t |-> 0]
DatetimeBound(t) == [kind |-> "datetime", iso |-> FALSE, reso |-> "", t |-> t]
StrBound(reso, t) ==
    [kind |-> "str", iso |-> reso \in {"day", "minute", "second"}, reso |-> reso,
     t |-> t]

\* utils.is_isoformat
is_isoformat(date_str) == date_str.iso

\* bool(bound): None and "" are false.
Truthy(b) == b.kind = "datetime" \/ (b.kind = "str" /\ b.reso # "empty")

\* str(numpy.datetime64)[:19]: the timestamp cut to whole seconds, as a str.
TruncatedStr(t) == StrBound("second", t - (t % Second))

\* The label a slice bound stands for on a DatetimeIndex: a datetime is
\* itself; a str stands for the period it names, its first instant as the
\* start of a slice and its last instant as the end.
SliceStart(b) == b.t

SliceStop(b) ==
    IF b.kind = "str" /\ b.reso = "day" THEN b.t + Day - 1
    ELSE IF b.kind = "str" /\ b.reso = "minute" THEN b.t + Minute - 1
    ELSE IF b.kind = "str" /\ b.reso = "second" THEN b.t + Second - 1
    ELSE b.t

\* The positions kept, in order, of a sequence.
RECURSIVE KeepFrom(_, _, _)
KeepFrom(data, i, keep) ==
    IF i > Len(data) THEN <<>>
    ELSE (IF i \in keep THEN <<data[i]>> ELSE <<>>) \o KeepFrom(data, i + 1, keep)

\* Dataset.isel(time=keep): every variable along time keeps those positions.
isel_time(ds, keep) ==
    Dataset(ds.attrs, ds.coords,
            [n \in DOMAIN ds.variables |->
                IF "time" \in ds.variables[n].dims
                THEN Variable(ds.variables[n].dims,
                              KeepFrom(ds.variables[n].data, 1, keep),
                              ds.variables[n].attrs, ds.variables[n].encoding)
                ELSE ds.variables[n]],
            ds.source)

\* The slip: the end of the slice is exclusive.
sel_time_slice_HalfOpen(ds, start, end) ==
    LET time == ds.variables[TimeName].data
    IN  isel_time(ds, {i \in 1..Len(time) :
                          /\ SliceStart(start) <= time[i][1]
                          /\ time[i][1] < SliceStop(end)})

\* Dataset.sel(time=slice(start, end)) on an increasing time index: the
\* records from the start label to the end label, both included.
sel_time_slice(ds, start, end) ==
    LET time == ds.variables[TimeName].data
    IN  isel_time(ds, {i \in 1..Len(time) :
                          /\ SliceStart(start) <= time[i][1]
                          /\ time[i][1] <= SliceStop(end)})

\* Dataset[names] (Dataset._copy_listed): the named variables, and every
\* coordinate whose dimensions are among those of the named variables.
copy_listed(ds, names) ==
    LET named == Range(names)
        needed_dims == UNION {ds.variables[n].dims : n \in named}
        coord_names == {k \in ds.coords : ds.variables[k].dims \subseteq needed_dims}
    IN  Dataset(ds.attrs, coord_names,
                [n \in named \cup coord_names |-> ds.variables[n]], ds.source)

QCFlagSuffix == <<"_QCFlag">>

\* The loop with a test for names already listed: a flag is added once, and
\* only when the request does not name it.
RECURSIVE qcFlagsFrom_Union(_, _, _)
qcFlagsFrom_Union(variables, i, ds) ==
    IF i > Len(variables) THEN <<>>
    ELSE (IF ~Contains(variables[i], QCFlagSuffix)
             /\ (variables[i] \o QCFlagSuffix) \in DOMAIN ds.variables
             /\ (variables[i] \o QCFlagSuffix) \notin Range(variables)
             /\ \A j \in 1..(i - 1) : variables[j] # variables[i]
          THEN <<variables[i] \o QCFlagSuffix>>
          ELSE <<>>)
         \o qcFlagsFrom_Union(variables, i + 1, ds)

\* The loop that collects the quality flags of the requested variables.
RECURSIVE qcFlagsFrom(_, _, _)
qcFlagsFrom(variables, i, ds) ==
    IF i > Len(variables) THEN <<>>
    ELSE (IF ~Contains(variables[i], QCFlagSuffix)
             /\ (variables[i] \o QCFlagSuffix) \in DOMAIN ds.variables
          THEN <<variables[i] \o QCFlagSuffix>>
          ELSE <<>>)
         \o qcFlagsFrom(variables, i + 1, ds)

\* The requested names the dataset does not hold, by position.
MissingVariables(variables, ds) ==
    {i \in 1..Len(variables) : variables[i] \notin DOMAIN ds.variables}

SubsetErrorMsg(site, var) ==
    <<"Error: fail to get subset for site ">> \o Quoted(site)
    \o <<": variable ">> \o Quoted(var) \o <<" not found">>

\* The slip: names the dataset does not hold are dropped from the request.
select_variables_DropUnknown(site, ds, variables, keep_qcflags) ==
    LET known == KeepFrom(variables, 1,
                          (1..Len(variables)) \ MissingVariables(variables, ds))
    IN  IF Len(known) = 0 THEN Ok(ds)
        ELSE Ok(copy_listed(ds, known \o (IF keep_qcflags
                                          THEN qcFlagsFrom(known, 1, ds)
                                          ELSE <<>>)))

\* The slip: the quality flags are never added.
select_variables_NoFlags(site, ds, variables, keep_qcflags) ==
    IF Len(variables) = 0 THEN Ok(ds)
    ELSE IF MissingVariables(variables, ds) # {}
    THEN Raise("Exception",
               SubsetErrorMsg(site, variables[Least(MissingVariables(variables, ds))]))
    ELSE Ok(copy_listed(ds, variables))

\* variables + qcFlags: the list of names the subset is selected by.
subset_names(ds, variables, keep_qcflags) ==
    variables \o (IF keep_qcflags THEN qcFlagsFrom(variables, 1, ds) ELSE <<>>)

\* The variable selection of get_subset (variables None or [] selects nothing).
select_variables(site, ds, variables, keep_qcflags) ==
    IF Len(variables) = 0 THEN Ok(ds)
    ELSE IF MissingVariables(variables, ds) # {}
    THEN Raise("Exception",
               SubsetErrorMsg(site, variables[Least(MissingVariables(variables, ds))]))
    ELSE Ok(copy_listed(ds, subset_names(ds, variables, keep_qcflags)))

\* The start of the slice: the first timestamp cut to the second for None,
\* the argument itself otherwise; a str that is no ISO date raises.
slice_start(ds, start) ==
    IF start.kind = "none"
    THEN IF TimeName \notin ds.coords THEN Raise("KeyError", Quoted(TimeName))
         ELSE IF Len(ds.variables[TimeName].data) = 0
         THEN Raise("IndexError",
                    <<"index 0 is out of bounds for axis 0 with size 0">>)
         ELSE Ok(TruncatedStr(ds.variables[TimeName].data[1][1]))
    ELSE IF start.kind = "str" /\ ~is_isoformat(start)
    THEN Raise("ValueError", <<"Invalid ISO-format start time ", start.reso>>)
    ELSE Ok(start)

\* The end of the slice, likewise from the last timestamp.
slice_end(ds, end) ==
    IF end.kind = "none"
    THEN IF TimeName \notin ds.coords THEN Raise("KeyError", Quoted(TimeName))
         ELSE IF Len(ds.variables[TimeName].data) = 0
         THEN Raise("IndexError",
                    <<"index -1 is out of bounds for axis 0 with size 0">>)
         ELSE Ok(TruncatedStr(
                    ds.variables[TimeName].data[Len(ds.variables[TimeName].data)][1]))
    ELSE IF end.kind = "str" /\ ~is_isoformat(end)
    THEN Raise("ValueError", <<"Invalid ISO-format end time ", end.reso>>)
    ELSE Ok(end)

\* dataset.sel(time=slice(start, end)) once both bounds are settled.
slice_between(ds, start, end) ==
    IF ~start.ok THEN start
    ELSE IF ~end.ok THEN end
    ELSE IF TimeName \notin ds.coords
    THEN Raise("KeyError",
               <<"'time' is not a valid dimension or coordinate for Dataset">>)
    ELSE Ok(sel_time_slice(ds, start.val, end.val))

\* The time slicing of get_subset.
slice_time(ds, start, end) ==
    IF ~(Truthy(start) \/ Truthy(end)) THEN Ok(ds)
    ELSE slice_between(ds, slice_start(ds, start), slice_end(ds, end))

\* The slip: the attributes of the coordinates are kept.
clear_attrs_DataOnly(ds) ==
    Dataset(ds.attrs, ds.coords,
            [n \in DOMAIN ds.variables |->
                IF n \in ds.coords THEN ds.variables[n]
                ELSE Variable(ds.variables[n].dims, ds.variables[n].data, NoAttrs,
                              ds.variables[n].encoding)],
            ds.source)

\* dataset.variables[var].attrs = {} for every variable.
clear_attrs(ds) ==
    Dataset(ds.attrs, ds.coords,
            [n \in DOMAIN ds.variables |->
                Variable(ds.variables[n].dims, ds.variables[n].data, NoAttrs,
                         ds.variables[n].encoding)],
            ds.source)

\* resolve_version taking the version with the greatest number: 2024_v10
\* over 2024_v2.
resolve_version_Numeric(srv, site, version) ==
    IF version # None THEN ApiOk(version[1], <<>>)
    ELSE IF ~get_versions(srv, site).ok THEN get_versions(srv, site)
    ELSE IF get_versions(srv, site).val = {}
    THEN ApiRaise("ValueError", <<"max() arg is an empty sequence">>,
                  get_versions(srv, site).io)
    ELSE ApiOk(CHOOSE m \in get_versions(srv, site).val :
                   \A x \in get_versions(srv, site).val :
                       Len(x) < Len(m) \/ (Len(x) = Len(m) /\ (x = m \/ StrLess(x, m))),
               get_versions(srv, site).io)

\* The version used: the one given or, for None, max(get_versions(site)).
resolve_version(srv, site, version) ==
    IF version # None THEN ApiOk(version[1], <<>>)
    ELSE LET versions == get_versions(srv, site)
         IN  IF ~versions.ok THEN versions
             ELSE IF versions.val = {}
             THEN ApiRaise("ValueError", <<"max() arg is an empty sequence">>,
                           versions.io)
             ELSE ApiOk(StrMax(versions.val), versions.io)

\* A result of the dataset steps, with the I/O performed so far.
WithIo(r, io) == IF r.ok THEN ApiOk(r.val, io) ELSE ApiRaise(r.exc, r.val, io)

\* get_subset from the sliced dataset on: the attributes are kept or cleared.
subset_from_slice(sliced, keep_attrs) ==
    IF ~sliced.ok THEN sliced
    ELSE Ok(IF keep_attrs THEN sliced.val ELSE clear_attrs(sliced.val))

\* get_subset from the variable selection on.
subset_from_selection(selected, start, end, keep_attrs) ==
    IF ~selected.ok THEN selected
    ELSE subset_from_slice(slice_time(selected.val, start, end), keep_attrs)

\* get_subset from the opened dataset on.
subset_from_dataset(site, dataset, io, variables, start, end, keep_attrs, keep_qcflags) ==
    IF ~dataset.ok THEN ApiRaise(dataset.exc, dataset.val, io \o dataset.io)
    ELSE WithIo(subset_from_selection(
                    select_variables(site, dataset.val, variables, keep_qcflags),
                    start, end, keep_attrs),
                io \o dataset.io)

\* get_subset from the resolved version on.
subset_from_version(srv, site, ver, processing_level, variables, start, end, keep_attrs, keep_qcflags, missing_as_nan) ==
    IF ~ver.ok THEN ver
    ELSE subset_from_dataset(site,
                             get_dataset(srv, site, ver.val, processing_level,
                                         missing_as_nan),
                             ver.io, variables, start, end, keep_attrs,
                             keep_qcflags)

get_subset(srv, site, version, processing_level, variables, start, end, keep_attrs, keep_qcflags, missing_as_nan) ==
    subset_from_version(srv, site, resolve_version(srv, site, version),
                        processing_level, variables, start, end, keep_attrs,
                        keep_qcflags, missing_as_nan)

(***************************************************************************)
(* flux_api.py: get_global_attributes, get_variables, get_attributes       *)
(***************************************************************************)

\* A result with the I/O that preceded it put in front of its own.
PrefixIo(io, r) == [r EXCEPT !.io = io \o r.io]

\* get_dataset(site, version, processing_level) for the resolved version.
dataset_of_version(srv, site, ver, processing_level) ==
    IF ~ver.ok THEN ver
    ELSE PrefixIo(ver.io, get_dataset(srv, site, ver.val, processing_level, FALSE))

global_attributes_of(dataset) ==
    IF ~dataset.ok THEN dataset ELSE ApiOk(dataset.val.attrs, dataset.io)

get_global_attributes(srv, site, version, processing_level) ==
    global_attributes_of(
        dataset_of_version(srv, site, resolve_version(srv, site, version),
                           processing_level))

\* list(dataset.variables.keys()), as the set of the names.
variables_of(dataset) ==
    IF ~dataset.ok THEN dataset ELSE ApiOk(DOMAIN dataset.val.variables, dataset.io)

get_variables(srv, site, version, processing_level) ==
    variables_of(
        dataset_of_version(srv, site, resolve_version(srv, site, version),
                           processing_level))

\* str(list of str): ['a', 'b']
RECURSIVE ListItemsRepr(_, _)
ListItemsRepr(names, i) ==
    IF i > Len(names) THEN <<>>
    ELSE (IF i > 1 THEN <<", ">> ELSE <<>>) \o Quoted(names[i])
         \o ListItemsRepr(names, i + 1)

ListRepr(names) == <<"[">> \o ListItemsRepr(names, 1) \o <<"]">>

\* variables is None or Some(list); an empty list has no valid name.
attributes_of(dataset, variables) ==
    IF ~dataset.ok THEN dataset
    ELSE IF variables = None
    THEN ApiOk([n \in DOMAIN dataset.val.variables |->
                   dataset.val.variables[n].attrs], dataset.io)
    ELSE IF Len(variables[1]) = 0 \/ MissingVariables(variables[1], dataset.val) # {}
    THEN ApiRaise("ValueError",
                  ListRepr(variables[1]) \o <<" has invalid variable">>, dataset.io)
    ELSE ApiOk([n \in Range(variables[1]) |-> dataset.val.variables[n].attrs],
               dataset.io)

get_attributes(srv, site, version, processing_level, variables) ==
    attributes_of(
        dataset_of_version(srv, site, resolve_version(srv, site, version),
                           processing_level),
        variables)

(***************************************************************************)
(* datetime: the calendar.  An instant is a count of half seconds from     *)
(* Jan 1 00:00 of EpochYear.                                               *)
(***************************************************************************)
EpochYear == 2000

\* The years the calendar is computed for.
CalendarYears == (EpochYear - 2)..(EpochYear + 30)

IsLeap(y) == (y % 4 = 0 /\ y % 100 # 0) \/ y % 400 = 0

\* The leap years from year 1 to year y.
LeapsTo(y) == (y \div 4) - (y \div 100) + (y \div 400)

\* The days from Jan 1 of EpochYear to Jan 1 of year y.
DaysBeforeYear(y) ==
    365 * (y - EpochYear) + LeapsTo(y - 1) - LeapsTo(EpochYear - 1)

\* datetime(year, 1, 1, 0, 0, 0)
Jan1(y) == DaysBeforeYear(y) * Day

\* datetime.year
YearOf(t) == CHOOSE y \in CalendarYears : Jan1(y) <= t /\ t < Jan1(y + 1)

\* timedelta(minutes=m)
Minutes(m) == m * Minute

MonthLengths(y) ==
    <<31, IF IsLeap(y) THEN 29 ELSE 28, 31, 30, 31, 30, 31, 31, 30, 31, 30, 31>>

\* The days of year y before its month m.
RECURSIVE DaysBeforeMonth(_, _)
DaysBeforeMonth(y, m) ==
    IF m = 1 THEN 0 ELSE DaysBeforeMonth(y, m - 1) + MonthLengths(y)[m - 1]

\* datetime.month of day d (from 0) of year y
MonthOf(y, d) ==
    CHOOSE m \in 1..12 : DaysBeforeMonth(y, m) <= d /\ d < DaysBeforeMonth(y, m + 1)

DigitChars == <<"0","1","2","3","4","5","6","7","8","9">>

\* A natural number in decimal, at least width digits wide, zero-padded.
RECURSIVE Digits(_, _)
Digits(n, width) ==
    IF n < 10 /\ width <= 1 THEN <<DigitChars[n + 1]>>
    ELSE Digits(n \div 10, width - 1) \o <<DigitChars[(n % 10) + 1]>>

\* %m%d of day d (from 0) of year y, that lies in month m
MonthDayStamp(y, d, m) == Digits(m, 2) \o Digits(d - DaysBeforeMonth(y, m) + 1, 2)

\* %Y%m%d%H%M of the instant s after Jan 1 00:00 of year y
StampInYear(y, s) ==
    Digits(y, 4) \o MonthDayStamp(y, s \div Day, MonthOf(y, s \div Day))
    \o Digits((s % Day) \div (60 * Minute), 2)
    \o Digits((s % (60 * Minute)) \div Minute, 2)

StampOfYear(t, y) == StampInYear(y, t - Jan1(y))

\* "{:%Y%m%d%H%M}".format(t)
FormatStamp(t) == StampOfYear(t, YearOf(t))

\* str(int)
IntStr(n) == IF n < 0 THEN <<"-">> \o Digits(-n, 1) ELSE Digits(n, 1)

\* int(str): the digits of a natural number, or no number.
IsDigits(text) == Len(text) > 0 /\ \A i \in 1..Len(text) : text[i] \in Range(DigitChars)

DigitValue(c) == (CHOOSE i \in 1..10 : DigitChars[i] = c) - 1

RECURSIVE ParseNat(_, _)
ParseNat(text, n) ==
    IF n = 0 THEN 0 ELSE 10 * ParseNat(text, n - 1) + DigitValue(text[n])

(***************************************************************************)
(* export_utils.py: the OneFlux csv export                                 *)
(***************************************************************************)

\* ONEFLUX_VARIABLES_CFG in dict order: the variable, the digits after the
\* point of its format ("{0:d}" is 0) and its OneFlux name.
ONEFLUX_VARIABLES_CFG ==
    <<[var |-> <<"CO2">>, decimals |-> 3, name |-> <<"CO2">>],
      [var |-> <<"Fco2">>, decimals |-> 4, name |-> <<"FC">>],
      [var |-> <<"Fg">>, decimals |-> 0, name |-> <<"G">>],
      [var |-> <<"Fh">>, decimals |-> 0, name |-> <<"H">>],
      [var |-> <<"H2O">>, decimals |-> 2, name |-> <<"H2O">>],
      [var |-> <<"Fe">>, decimals |-> 0, name |-> <<"LE">>],
      [var |-> <<"Fld">>, decimals |-> 0, name |-> <<"LW_IN">>],
      [var |-> <<"Flu">>, decimals |-> 0, name |-> <<"LW_OUT">>],
      [var |-> <<"Fn">>, decimals |-> 0, name |-> <<"NETRAD">>],
      [var |-> <<"Precip">>, decimals |-> 1, name |-> <<"P">>],
      [var |-> <<"ps">>, decimals |-> 1, name |-> <<"PA">>],
      [var |-> <<"RH">>, decimals |-> 0, name |-> <<"RH">>],
      [var |-> <<"Sws">>, decimals |-> 3, name |-> <<"SWC_1">>],
      [var |-> <<"Fsd">>, decimals |-> 0, name |-> <<"SW_IN">>],
      [var |-> <<"Fsu">>, decimals |-> 0, name |-> <<"SW_OUT">>],
      [var |-> <<"Ta">>, decimals |-> 2, name |-> <<"TA">>],
      [var |-> <<"Ts">>, decimals |-> 2, name |-> <<"TS_1">>],
      [var |-> <<"ustar">>, decimals |-> 2, name |-> <<"USTAR">>],
      [var |-> <<"VPD">>, decimals |-> 3, name |-> <<"VPD">>],
      [var |-> <<"Wd">>, decimals |-> 0, name |-> <<"WD">>],
      [var |-> <<"Ws">>, decimals |-> 2, name |-> <<"WS">>]>>

VPD == <<"VPD">>

\* [v for v in ONEFLUX_VARIABLES_CFG if v in ds.variables], as positions of
\* the configuration.
RECURSIVE OnefluxVariablesFrom(_, _)
OnefluxVariablesFrom(ds, i) ==
    IF i > Len(ONEFLUX_VARIABLES_CFG) THEN <<>>
    ELSE (IF ONEFLUX_VARIABLES_CFG[i].var \in DOMAIN ds.variables
          THEN <<ONEFLUX_VARIABLES_CFG[i]>> ELSE <<>>)
         \o OnefluxVariablesFrom(ds, i + 1)

\* A value of a data array is kept in tenths, so that VPD / 10.0 is exact.
Tenths(v) == 10 * v

\* int(round(value)): to the nearest integer, a half to the even one.
RoundHalfEven(tenths) ==
    LET floor == tenths \div 10
        rest == tenths % 10
    IN  IF rest < 5 THEN floor
        ELSE IF rest > 5 THEN floor + 1
        ELSE IF floor % 2 = 0 THEN floor ELSE floor + 1

RECURSIVE Zeros(_)
Zeros(n) == IF n <= 0 THEN <<>> ELSE <<"0">> \o Zeros(n - 1)

\* "{0:.Nf}".format(value) for N >= 1
FormatFixed(tenths, decimals) ==
    LET mag == IF tenths < 0 THEN -tenths ELSE tenths
    IN  (IF tenths < 0 THEN <<"-">> ELSE <<>>)
        \o Digits(mag \div 10, 1) \o <<".">> \o <<DigitChars[(mag % 10) + 1]>>
        \o Zeros(decimals - 1)

\* The value of a row as the configuration formats it: "d" formats take
\* int(round(value)).
FormatValue(tenths, decimals) ==
    IF decimals = 0 THEN IntStr(RoundHalfEven(tenths))
    ELSE FormatFixed(tenths, decimals)

\* The values of a sequence in increasing order (numpy sort).
RECURSIVE InsertSorted(_, _)
InsertSorted(sorted, x) ==
    IF Len(sorted) = 0 THEN <<x>>
    ELSE IF x < Head(sorted) THEN <<x>> \o sorted
    ELSE <<Head(sorted)>> \o InsertSorted(Tail(sorted), x)

RECURSIVE SortedFrom(_, _)
SortedFrom(values, i) ==
    IF i > Len(values) THEN <<>>
    ELSE InsertSorted(SortedFrom(values, i + 1), values[i])

Sorted(values) == SortedFrom(values, 1)

\* The grid of a year: from Jan 1 00:00 + one step to Jan 1 00:00 of the
\* next year, as perdelta yields it.
GridStart(year, ts_delta) == Jan1(year) + ts_delta

GridEnd(year) == Jan1(year + 1)

\* A loop that stops before end.
perdelta_continues_Exclusive(curr, end) == curr < end

\* perdelta(start, end, delta): the loop goes on while curr <= end.
perdelta_continues(curr, end) == curr <= end

\* A grid that holds Jan 1 00:00 of its own year too.
OnGrid_Closed(t, year, ts_delta) ==
    /\ Jan1(year) <= t
    /\ t <= Jan1(year + 1)
    /\ (t - Jan1(year)) % ts_delta = 0

\* t is a value of the grid; its index in the grid (from 0).
OnGrid(t, year, ts_delta) ==
    /\ GridStart(year, ts_delta) <= t
    /\ t <= GridEnd(year)
    /\ (t - GridStart(year, ts_delta)) % ts_delta = 0

GridIndex(t, year, ts_delta) == (t - GridStart(year, ts_delta)) \div ts_delta

\* The positions (from 1) of a sorted axis whose value is on the grid.
GridPositions(b, year, ts_delta) ==
    KeepFrom([j \in 1..Len(b) |-> j], 1, {j \in 1..Len(b) : OnGrid(b[j], year, ts_delta)})

\* FindMatchingIndices(cdt, var_dt), inds_b: the positions (from 1), in the
\* sorted var_dt, of the values that are on the grid.
inds_b(var_dt, year, ts_delta) == GridPositions(Sorted(var_dt), year, ts_delta)

\* The numbers of a set in increasing order.
RECURSIVE Ascending(_)
Ascending(S) == IF S = {} THEN <<>> ELSE <<Least(S)>> \o Ascending(S \ {Least(S)})

\* FindMatchingIndices(cdt, var_dt), inds_a: the positions (from 0) in the
\* grid of the values that are in var_dt, in increasing order.
inds_a(var_dt, year, ts_delta) ==
    Ascending({GridIndex(t, year, ts_delta) :
                  t \in {x \in Range(var_dt) : OnGrid(x, year, ts_delta)}})

\* sorted.searchsorted(v, side="left") and side="right": the number of
\* values below v, and of values not above v.
searchsorted_left(sorted, v) == Cardinality({i \in 1..Len(sorted) : sorted[i] < v})

searchsorted_right(sorted, v) == Cardinality({i \in 1..Len(sorted) : sorted[i] <= v})

\* (right - left > 0).nonzero()[0]: the positions (from 0) of the values of
\* the sorted array probes that occur in the sorted array sorted.
nonzero_matches(sorted, probes) ==
    Ascending({i - 1 : i \in {j \in 1..Len(probes) :
                  searchsorted_right(sorted, probes[j])
                      - searchsorted_left(sorted, probes[j]) > 0}})

\* FindMatchingIndices(a, b): both arrays are sorted first and the positions
\* returned are positions in the sorted arrays.
FindMatchingIndices(a, b) ==
    [inds_a |-> nonzero_matches(Sorted(b), Sorted(a)),
     inds_b |-> nonzero_matches(Sorted(a), Sorted(b))]

\* The result of an export: Ok/Raise, the I/O performed and the files the
\* call left on disk (path -> content).
ExportOk(v, io, files) == [ok |-> TRUE, exc |-> "", val |-> v, io |-> io, files |-> files]

ExportRaise(e, m, io, files) == [ok |-> FALSE, exc |-> e, val |-> m, io |-> io, files |-> files]

NoFiles == <<>>

\* The machine an export runs on: whether directories can be created and
\* files written, and whether daylight saving is in force now.
Host(mkdir, write, summer) == [mkdir |-> mkdir, write |-> write, summer |-> summer]

\* pytz: the zones known, with str(utc_offset) in and out of daylight saving.
TimeZones ==
    (<<"Australia/Darwin">> :> [standard |-> <<"9.5">>, summer |-> <<"9.5">>])
    @@ (<<"Australia/Sydney">> :> [standard |-> <<"10.0">>, summer |-> <<"11.0">>])

NumericChars == {"-", "1", "2", "3", "4", "5", "6", "7", "8", "9", "0", "."}

strip_non_numeric(s1) == SelectSeq(s1, LAMBDA c : c \in NumericChars)

get_fluxnet_id(ds) ==
    IF "fluxnet_id" \in DOMAIN ds.attrs /\ Len(ds.attrs.fluxnet_id) = 6
    THEN ds.attrs.fluxnet_id
    ELSE IF "site_name" \in DOMAIN ds.attrs THEN ds.attrs.site_name ELSE <<>>

\* os.path.join(outdir, name)
PathJoin(outdir, name) ==
    IF outdir = <<>> THEN name ELSE outdir \o <<"/">> \o name

CsvFilePath(ds, year, outdir) ==
    PathJoin(outdir, get_fluxnet_id(ds) \o <<"_qcv_">> \o IntStr(year) \o <<".csv">>)

time_resolution == (30 :> <<"halfhourly">>) @@ (60 :> <<"hourly">>)

\* int(ds.attrs["time_step"]): the minutes of a step, or the error.
time_step_of(ds) ==
    IF "time_step" \notin DOMAIN ds.attrs
    THEN Raise("KeyError", KeyErrorMsg(<<"time_step">>))
    ELSE IF ~IsDigits(ds.attrs.time_step)
    THEN Raise("ValueError", <<"invalid literal for int() with base 10: ">>
                             \o Quoted(ds.attrs.time_step))
    ELSE Ok(ParseNat(ds.attrs.time_step, Len(ds.attrs.time_step)))

\* The time axis of a dataset, as instants.
TimeData(ds) == [i \in 1..Len(ds.variables[TimeName].data) |-> ds.variables[TimeName].data[i][1]]

\* Data arrays that take the k-th record of the dataset for the k-th match.
DataArrays_ByRank(ds, variables, a1, b1) ==
    [n \in Range(a1) |->
        LET k == CHOOSE j \in 1..Len(a1) : a1[j] = n
        IN  [v \in 1..Len(variables) |->
                IF variables[v].var = VPD
                THEN ds.variables[VPD].data[k][1]
                ELSE Tenths(ds.variables[variables[v].var].data[k][1])]]

\* Data arrays filled without the unit conversion of VPD.
DataArrays_Unconverted(ds, variables, a1, b1) ==
    [n \in Range(a1) |->
        LET k == CHOOSE j \in 1..Len(a1) : a1[j] = n
        IN  [v \in 1..Len(variables) |->
                Tenths(ds.variables[variables[v].var].data[b1[k]][1])]]

\* The data arrays of a year: for every grid index that matches, the values
\* of the variables (in tenths); every other index holds the prefill.
\* a1[k] receives the record at position b1[k] of the dataset.
DataArrays(ds, variables, a1, b1) ==
    [n \in Range(a1) |->
        LET k == CHOOSE j \in 1..Len(a1) : a1[j] = n
        IN  [v \in 1..Len(variables) |->
                IF variables[v].var = VPD
                THEN ds.variables[VPD].data[b1[k]][1]
                ELSE Tenths(ds.variables[variables[v].var].data[b1[k]][1])]]

\* data[var]["data"][n]
ArrayValue(arrays, v, n) ==
    IF n \in DOMAIN arrays THEN arrays[n][v] ELSE Tenths(FLUX_MISSING_VALUE)

\* len(cdt): the instants perdelta yields from start to end.
nrecs_of(year, ts_delta) ==
    (GridEnd(year) - GridStart(year, ts_delta)) \div ts_delta + 1

\* The table a file's data rows are written from.
Table(variables, year, ts_delta, arrays) ==
    [variables |-> variables, year |-> year, ts_delta |-> ts_delta, arrays |-> arrays]

\* The n-th data row (from 0): the start and end stamps, then the values.
DataRow(table, n) ==
    LET dtime == GridStart(table.year, table.ts_delta) + n * table.ts_delta
    IN  <<FormatStamp(dtime - table.ts_delta), FormatStamp(dtime)>>
        \o [v \in 1..Len(table.variables) |->
               FormatValue(ArrayValue(table.arrays, v, n), table.variables[v].decimals)]

HeaderRow(variables) ==
    <<<<"TIMESTAMP_START">>, <<"TIMESTAMP_END">>>>
    \o [v \in 1..Len(variables) |-> variables[v].name]

\* A csv file: the rows before the data rows, then nrecs data rows of table.
CsvFile(rows, nrecs, table) == [rows |-> rows, nrecs |-> nrecs, table |-> table]

\* The preamble rows in the order they are written.
SiteRows(ds, year) == <<<<<<"site">>, get_fluxnet_id(ds)>>, <<<<"year">>, IntStr(year)>>>>

LatRow(ds) == <<<<"lat">>, ds.attrs.latitude>>

LonRow(ds) == <<<<"lon">>, ds.attrs.longitude>>

TimezoneRow(ds, host) ==
    <<<<"timezone">>, IF host.summer THEN TimeZones[ds.attrs.time_zone].summer
                                    ELSE TimeZones[ds.attrs.time_zone].standard>>

HtowerRow(ds, year, ts_delta) ==
    <<<<"htower">>, FormatStamp(GridStart(year, ts_delta)),
      strip_non_numeric(ds.attrs.tower_height)>>

TimeresRow(step) == <<<<"timeres">>, time_resolution[step]>>

TailRows == <<<<<<"sc_negl">>, <<"1">>>>, <<<<"notes">>, <<"Adapted from PyFluxPro">>>>>>

\* The rows from the timeres row on: a step that is neither 30 nor 60 fails.
csv_rows_timeres(table, step, rows) ==
    IF step \notin DOMAIN time_resolution
    THEN [rows |-> rows, err |-> Raise("KeyError", IntStr(step))]
    ELSE [rows |-> rows \o <<TimeresRow(step)>> \o TailRows \o <<HeaderRow(table.variables)>>,
          err |-> Ok(<<>>)]

\* The rows from the lat row on.
csv_rows_lat(ds, table, step, host, rows) ==
    IF "latitude" \notin DOMAIN ds.attrs
    THEN [rows |-> rows, err |-> Raise("KeyError", KeyErrorMsg(<<"latitude">>))]
    ELSE IF "longitude" \notin DOMAIN ds.attrs
    THEN [rows |-> rows \o <<LatRow(ds)>>,
          err |-> Raise("KeyError", KeyErrorMsg(<<"longitude">>))]
    ELSE csv_rows_timeres(table, step,
                          rows \o <<LatRow(ds), LonRow(ds), TimezoneRow(ds, host),
                                    HtowerRow(ds, table.year, table.ts_delta)>>)

\* The rows written once the file is open, up to the first failure.
csv_rows(ds, table, step, host) ==
    csv_rows_lat(ds, table, step, host, SiteRows(ds, table.year))

\* The file left by the rows written: with its data rows if none failed.
csv_year_written(path, table, written) ==
    IF ~written.err.ok
    THEN [r |-> written.err, files |-> path :> CsvFile(written.rows, 0, table)]
    ELSE [r |-> Ok(path),
          files |-> path :> CsvFile(written.rows, nrecs_of(table.year, table.ts_delta), table)]

\* write_csv_oneflux_year once the data arrays are filled: the attributes
\* read before the file is opened, the open, then the rows.
csv_year_file(ds, table, step, path, host) ==
    IF "time_zone" \notin DOMAIN ds.attrs
    THEN [r |-> Raise("KeyError", KeyErrorMsg(<<"time_zone">>)), files |-> NoFiles]
    ELSE IF ds.attrs.time_zone \notin DOMAIN TimeZones
    THEN [r |-> Raise("UnknownTimeZoneError", Quoted(ds.attrs.time_zone)), files |-> NoFiles]
    ELSE IF "tower_height" \notin DOMAIN ds.attrs
    THEN [r |-> Raise("KeyError", KeyErrorMsg(<<"tower_height">>)), files |-> NoFiles]
    ELSE IF ~host.write
    THEN [r |-> Raise("PermissionError", <<"[Errno 13] Permission denied: ">> \o Quoted(path)),
          files |-> NoFiles]
    ELSE csv_year_written(path, table, csv_rows(ds, table, step, host))

\* The assignment of the matched records to the data arrays: the values at
\* b1 must fit the places a1.
csv_year_matched(ds, variables, year, step, a1, b1, outdir, host) ==
    IF Len(variables) > 0 /\ Len(b1) # 1 /\ Len(b1) # Len(a1)
    THEN [r |-> Raise("ValueError",
                      <<"shape mismatch: value array cannot be broadcast to indexing result">>),
          files |-> NoFiles]
    ELSE csv_year_file(ds, Table(variables, year, Minutes(step),
                                 DataArrays(ds, variables, a1, b1)),
                       step, CsvFilePath(ds, year, outdir), host)

\* write_csv_oneflux_year from the selected dataset on: the time axis and
\* the matching.
csv_year_selected(ds, variables, year, step, outdir, host) ==
    IF TimeName \notin ds.coords
    THEN [r |-> Raise("KeyError", KeyErrorMsg(TimeName)), files |-> NoFiles]
    ELSE csv_year_matched(ds, variables, year, step,
                          inds_a(TimeData(ds), year, Minutes(step)),
                          inds_b(TimeData(ds), year, Minutes(step)), outdir, host)

VarNamesOf(variables) == [v \in 1..Len(variables) |-> variables[v].var]

\* ds = ds[variables]
csv_year_variables(ds, variables, year, step, outdir, host) ==
    csv_year_selected(copy_listed(ds, VarNamesOf(variables)), variables, year,
                      step, outdir, host)

\* A step of 0 minutes: perdelta never leaves its loop (curr += delta does
\* not move curr), and list() of it grows until memory is exhausted.
csv_year_step(ds, step, year, outdir, host) ==
    IF ~step.ok THEN [r |-> step, files |-> NoFiles]
    ELSE IF step.val = 0 THEN [r |-> Raise("MemoryError", <<>>), files |-> NoFiles]
    ELSE csv_year_variables(ds, OnefluxVariablesFrom(ds, 1), year, step.val, outdir, host)

\* write_csv_oneflux_year(ds, year, outdir): the path written, or the error,
\* with the file left on disk.
write_csv_oneflux_year(ds, year, outdir, host) ==
    csv_year_step(ds, time_step_of(ds), year, outdir, host)

\* The loop of write_csv_oneflux over the years, in increasing order: the
\* paths so far and the files so far, until a year fails.
RECURSIVE csv_years(_, _, _, _, _, _, _)
RECURSIVE csv_years_after(_, _, _, _, _, _, _, _)
csv_years(ds, year, end_year, outdir, host, output_files, files) ==
    IF year > end_year THEN [r |-> Ok(output_files), files |-> files]
    ELSE csv_years_after(ds, year, end_year, outdir, host, output_files, files,
                         write_csv_oneflux_year(ds, year, outdir, host))

csv_years_after(ds, year, end_year, outdir, host, output_files, files, one) ==
    IF ~one.r.ok THEN [r |-> one.r, files |-> one.files @@ files]
    ELSE csv_years(ds, year + 1, end_year, outdir, host,
                   Append(output_files, one.r.val), one.files @@ files)

\* The years of the first and the last record as they are stamped.
csv_from_times_NoShift(ds, ts_delta, times, outdir, host) ==
    IF Len(times) = 0
    THEN [r |-> Raise("IndexError", <<"index 0 is out of bounds for axis 0 with size 0">>),
          files |-> NoFiles]
    ELSE csv_years(ds, YearOf(times[1]), YearOf(times[Len(times)]), outdir, host, <<>>, NoFiles)

\* start_year and end_year: the years of the first and the last record, each
\* one step earlier.
csv_from_times(ds, ts_delta, times, outdir, host) ==
    IF Len(times) = 0
    THEN [r |-> Raise("IndexError", <<"index 0 is out of bounds for axis 0 with size 0">>),
          files |-> NoFiles]
    ELSE csv_years(ds, YearOf(times[1] - ts_delta), YearOf(times[Len(times)] - ts_delta),
                   outdir, host, <<>>, NoFiles)

csv_from_step(ds, step, outdir, host) ==
    IF ~step.ok THEN [r |-> step, files |-> NoFiles]
    ELSE IF TimeName \notin ds.coords
    THEN [r |-> Raise("KeyError", KeyErrorMsg(TimeName)), files |-> NoFiles]
    ELSE csv_from_times(ds, Minutes(step.val), TimeData(ds), outdir, host)

\* write_csv_oneflux(ds, outdir)
write_csv_oneflux(ds, outdir, host) == csv_from_step(ds, time_step_of(ds), outdir, host)

(***************************************************************************)
(* export_utils.py: the Excel workbook export                              *)
(***************************************************************************)

\* sorted() over names: the variable names and the attribute names of the
\* datasets, each list in str order.
SortedVariableNames ==
    <<<<"AH">>, <<"AH", "_QCFlag">>, <<"CO2">>, <<"CO2", "_QCFlag">>,
      <<"Fco2">>, <<"Fco2", "_QCFlag">>, <<"Fe">>, <<"Fe", "_QCFlag">>,
      <<"Fg">>, <<"Fg", "_QCFlag">>, <<"Fh">>, <<"Fh", "_QCFlag">>,
      <<"Fld">>, <<"Fld", "_QCFlag">>, <<"Flu">>, <<"Flu", "_QCFlag">>,
      <<"Fn">>, <<"Fn", "_QCFlag">>, <<"Fsd">>, <<"Fsd", "_QCFlag">>,
      <<"Fsu">>, <<"Fsu", "_QCFlag">>, <<"H2O">>, <<"H2O", "_QCFlag">>,
      <<"Precip">>, <<"Precip", "_QCFlag">>, <<"RH">>, <<"RH", "_QCFlag">>,
      <<"Sws">>, <<"Sws", "_QCFlag">>, <<"Ta">>, <<"Ta", "_QCFlag">>,
      <<"Ts">>, <<"Ts", "_QCFlag">>, <<"VPD">>, <<"VPD", "_QCFlag">>,
      <<"Wd">>, <<"Wd", "_QCFlag">>, <<"Ws">>, <<"Ws", "_QCFlag">>,
      <<"crs">>, <<"ps">>, <<"ps", "_QCFlag">>, <<"station_name">>,
      <<"ustar">>, <<"ustar", "_QCFlag">>>>

SortedAttributeNames ==
    <<"Description", "Units", "canopy_height", "fluxnet_id", "latitude",
      "long_name", "longitude", "site_name", "time_coverage_end", "time_coverage_start",
      "time_step", "time_zone", "tower_height", "units", "vegetation">>

\* sorted(names) for a set of names
SortedNames(order, names) == SelectSeq(order, LAMBDA n : n \in names)

\* A write of a value to a cell of a sheet.
CellWrite(row, col, value) == [row |-> row, col |-> col, value |-> value]

\* The cells of a sheet after a sequence of writes: the last write wins.
SheetOf(writes) ==
    [c \in {<<writes[i].row, writes[i].col>> : i \in 1..Len(writes)} |->
        LET last == CHOOSE i \in 1..Len(writes) :
                        /\ <<writes[i].row, writes[i].col>> = c
                        /\ \A j \in (i + 1)..Len(writes) :
                               <<writes[j].row, writes[j].col>> # c
        IN  writes[last].value]

\* ds.keys() without "crs" and "station_name"
DataVariableNames(ds) ==
    (DOMAIN ds.variables \ ds.coords) \ {<<"crs">>, <<"station_name">>}

HasQCFlag(name) == \E i \in 1..Len(name) : name[i] = "_QCFlag"

\* The writes of the sorted attributes k, v of a variable from row xlrow on:
\* the name in column 1, the value in column 2.
VariableAttrWrites(attrs, xlrow) ==
    LET keys == SortedNames(SortedAttributeNames, DOMAIN attrs)
    IN  [i \in 1..(2 * Len(keys)) |->
            IF i % 2 = 1 THEN CellWrite(xlrow + (i - 1) \div 2, 1, <<keys[(i + 1) \div 2]>>)
            ELSE CellWrite(xlrow + (i - 1) \div 2, 2, attrs[keys[i \div 2]])]

\* The loop over the variables: the name at the current row, then the
\* attributes; xlrow advances once per attribute.
RECURSIVE VariableWrites(_, _, _, _)
VariableWrites(ds, variables, i, xlrow) ==
    IF i > Len(variables) THEN <<>>
    ELSE <<CellWrite(xlrow, 0, variables[i])>>
         \o VariableAttrWrites(ds.variables[variables[i]].attrs, xlrow)
         \o VariableWrites(ds, variables, i + 1,
                           xlrow + Cardinality(DOMAIN ds.variables[variables[i]].attrs))

xlsx_add_attrsheet(ds) ==
    LET keys == SortedNames(SortedAttributeNames, DOMAIN ds.attrs)
        globals == [i \in 1..(2 * Len(keys)) |->
                       IF i % 2 = 1 THEN CellWrite((i + 1) \div 2, 0, <<keys[(i + 1) \div 2]>>)
                       ELSE CellWrite(i \div 2, 1, ds.attrs[keys[i \div 2]])]
    IN  SheetOf(<<CellWrite(0, 0, <<"Global attributes">>)>> \o globals
                \o <<CellWrite(Len(keys) + 2, 0, <<"Variable attributes">>)>>
                \o VariableWrites(ds, SortedNames(SortedVariableNames, DataVariableNames(ds)),
                                  1, Len(keys) + 3))

\* attrs.get(first) or attrs.get(second): None is written as an empty cell.
AttrOr(attrs, first, second) ==
    IF first \in DOMAIN attrs /\ attrs[first] # <<>> THEN attrs[first]
    ELSE IF second \in DOMAIN attrs THEN attrs[second] ELSE <<>>

\* The column of the times from row first on.
TimeWrites(ds, first) ==
    [i \in 1..Len(TimeData(ds)) |-> CellWrite(first + i - 1, 0, [datetime |-> TimeData(ds)[i]])]

\* The column xlcol of the data sheet: long name, units, name, values.
DataColumnWrites(ds, vname, xlcol) ==
    <<CellWrite(0, xlcol, AttrOr(ds.variables[vname].attrs, "long_name", "Description")),
      CellWrite(1, xlcol, AttrOr(ds.variables[vname].attrs, "units", "Units")),
      CellWrite(2, xlcol, vname)>>
    \o [i \in 1..Len(TimeData(ds)) |->
           CellWrite(2 + i, xlcol, ds.variables[vname].data[i])]

RECURSIVE DataColumnsFrom(_, _, _)
DataColumnsFrom(ds, variables, i) ==
    IF i > Len(variables) THEN <<>>
    ELSE DataColumnWrites(ds, variables[i], i) \o DataColumnsFrom(ds, variables, i + 1)

PlainVariables(ds) ==
    SortedNames(SortedVariableNames, {v \in DataVariableNames(ds) : ~HasQCFlag(v)})

xlsx_add_datasheet(ds) ==
    SheetOf(<<CellWrite(2, 0, <<"xlDateTime">>)>> \o TimeWrites(ds, 3)
            \o DataColumnsFrom(ds, PlainVariables(ds), 1))

\* The flag sheet: a column for every variable whose quality flag exists.
FlaggedVariables(ds) ==
    SelectSeq(PlainVariables(ds), LAMBDA v : (v \o QCFlagSuffix) \in DataVariableNames(ds))

FlagColumnWrites(ds, vname, xlcol) ==
    <<CellWrite(0, xlcol, vname)>>
    \o [i \in 1..Len(TimeData(ds)) |->
           CellWrite(i, xlcol, ds.variables[vname \o QCFlagSuffix].data[i])]

RECURSIVE FlagColumnsFrom(_, _, _)
FlagColumnsFrom(ds, variables, i) ==
    IF i > Len(variables) THEN <<>>
    ELSE FlagColumnWrites(ds, variables[i], i) \o FlagColumnsFrom(ds, variables, i + 1)

xlsx_add_flagsheet(ds) ==
    SheetOf(<<CellWrite(0, 0, <<"xlDateTime">>)>> \o TimeWrites(ds, 1)
            \o FlagColumnsFrom(ds, FlaggedVariables(ds), 1))

\* xlsx_write_dataset(ds, xlfilename): the workbook written at the close, or
\* the error; ds.time fails for a dataset without a time coordinate.
xlsx_write_dataset(ds, xlfilename, host) ==
    IF TimeName \notin DOMAIN ds.variables
    THEN [r |-> Raise("AttributeError", <<"'Dataset' object has no attribute 'time'">>),
          files |-> NoFiles]
    ELSE IF ~host.write
    THEN [r |-> Raise("FileCreateError",
                      <<"[Errno 13] Permission denied: ">> \o Quoted(xlfilename)),
          files |-> NoFiles]
    ELSE [r |-> Ok(None),
          files |-> xlfilename :> [Attr |-> xlsx_add_attrsheet(ds),
                                   Data |-> xlsx_add_datasheet(ds),
                                   Flag |-> xlsx_add_flagsheet(ds)]]

(***************************************************************************)
(* flux_api.py: export_as_excel and export_oneflux_csv                     *)
(***************************************************************************)

XlsxExt == <<".","x","l","s","x">>

ExtensionErrorMsg(filename) ==
    <<"Filename ">> \o filename
    \o <<" has invalid excel extension: must end with ", "'", ".xlsx", "'", ".">>

ExcelErrorPrefix == <<"Export dataset as Excel Workbook failed: ">>

\* The try block of export_as_excel: the dataset, then the workbook.
excel_from_workbook(io, filename, written) ==
    IF ~written.r.ok
    THEN ExportRaise("Exception", ExcelErrorPrefix \o written.r.val, io, written.files)
    ELSE ExportOk(filename, io, written.files)

excel_from_dataset(dataset, filename, host) ==
    IF ~dataset.ok
    THEN ExportRaise("Exception", ExcelErrorPrefix \o dataset.val, dataset.io, NoFiles)
    ELSE excel_from_workbook(dataset.io, filename,
                             xlsx_write_dataset(dataset.val, filename, host))

\* export_as_excel from the resolved version on: a failure to resolve the
\* latest version is raised as it is.
excel_from_version(srv, site, ver, processing_level, filename, host) ==
    IF ~ver.ok THEN ExportRaise(ver.exc, ver.val, ver.io, NoFiles)
    ELSE excel_from_dataset(
             PrefixIo(ver.io, get_dataset(srv, site, ver.val, processing_level, FALSE)),
             filename, host)

export_as_excel(srv, host, filename, site, version, processing_level) ==
    IF ~EndsWith(filename, XlsxExt)
    THEN ExportRaise("Exception", ExtensionErrorMsg(filename), <<>>, NoFiles)
    ELSE excel_from_version(srv, site, resolve_version(srv, site, version),
                            processing_level, filename, host)

OnefluxErrorPrefix == <<"Export dataset in oneflux format failed: ">>

\* Levels accepted beyond L3 and L4.
OnefluxLevels_Any == {<<"L","3">>, <<"L","4">>, <<"L","5">>, <<"L","6">>}

\* The processing levels the OneFlux export accepts.
OnefluxLevels == {<<"L","3">>, <<"L","4">>}

LevelErrorMsg(processing_level) ==
    <<"Invalid processing level ">> \o processing_level
    \o <<": only available for L3 or L4.">>

\* The try block of export_oneflux_csv from the dataset on.
oneflux_from_csv(io, written) ==
    IF ~written.r.ok
    THEN ExportRaise("Exception", OnefluxErrorPrefix \o written.r.val, io, written.files)
    ELSE ExportOk(written.r.val, io, written.files)

oneflux_from_dataset(dataset, outdir, host) ==
    IF ~dataset.ok
    THEN ExportRaise("Exception", OnefluxErrorPrefix \o dataset.val, dataset.io, NoFiles)
    ELSE oneflux_from_csv(dataset.io, write_csv_oneflux(dataset.val, outdir, host))

oneflux_from_version(srv, site, ver, processing_level, outdir, host) ==
    IF ~ver.ok
    THEN ExportRaise("Exception", OnefluxErrorPrefix \o ver.val, ver.io, NoFiles)
    ELSE oneflux_from_dataset(
             PrefixIo(ver.io, get_dataset(srv, site, ver.val, processing_level, FALSE)),
             outdir, host)

\* export_oneflux_csv: the level, the output folder, the version and the
\* dataset are all inside the try block.
export_oneflux_csv(srv, host, outdir, site, version, processing_level) ==
    IF processing_level \notin OnefluxLevels
    THEN ExportRaise("Exception", OnefluxErrorPrefix \o LevelErrorMsg(processing_level),
                     <<>>, NoFiles)
    ELSE IF outdir = <<>>
    THEN ExportRaise("Exception",
                     OnefluxErrorPrefix
                     \o <<"[Errno 2] No such file or directory: ", "'", "'">>,
                     <<>>, NoFiles)
    ELSE IF ~host.mkdir
    THEN ExportRaise("Exception",
                     OnefluxErrorPrefix
                     \o <<"[Errno 13] Permission denied: ">> \o Quoted(outdir),
                     <<>>, NoFiles)
    ELSE oneflux_from_version(srv, site, resolve_version(srv, site, version),
                              processing_level, outdir, host)

(***************************************************************************)
(* flux_api.py: get_datasets and get_subsets                               *)
(***************************************************************************)

\* The loop of get_datasets from the i-th site on: datasets[site] is set to
\* the dataset of each site in turn; the first failure leaves the loop.
RECURSIVE datasets_from(_, _, _, _, _, _, _, _)
RECURSIVE datasets_after(_, _, _, _, _, _, _, _, _)
RECURSIVE datasets_after_Continue(_, _, _, _, _, _, _, _, _)
\* The loop that goes on after a failure and returns the sites that opened.
datasets_after_Continue(srv, sites, i, version, processing_level, missing_as_nan, datasets, io, one) ==
    datasets_from(srv, sites, i + 1, version, processing_level, missing_as_nan,
                  IF one.ok THEN SetItem(datasets, sites[i], one.val) ELSE datasets,
                  io \o one.io)

datasets_from(srv, sites, i, version, processing_level, missing_as_nan, datasets, io) ==
    IF i > Len(sites) THEN ApiOk(datasets, io)
    ELSE datasets_after(srv, sites, i, version, processing_level, missing_as_nan, datasets, io, get_dataset(srv, sites[i], version, processing_level, missing_as_nan))

datasets_after(srv, sites, i, version, processing_level, missing_as_nan, datasets, io, one) ==
    IF ~one.ok THEN ApiRaise(one.exc, one.val, io \o one.io)
    ELSE datasets_from(srv, sites, i + 1, version, processing_level, missing_as_nan,
                       SetItem(datasets, sites[i], one.val), io \o one.io)

get_datasets(srv, sites, version, processing_level, missing_as_nan) ==
    datasets_from(srv, sites, 1, version, processing_level, missing_as_nan, EmptyDict, <<>>)

\* The dict comprehension of get_subsets from the i-th site on.
RECURSIVE subsets_from(_, _, _, _, _)
RECURSIVE subsets_after(_, _, _, _, _, _)
subsets_from(c, sites, i, subsets, io) ==
    IF i > Len(sites) THEN ApiOk(subsets, io)
    ELSE subsets_after(c, sites, i, subsets, io,
                       get_subset(c.srv, sites[i], c.version, c.processing_level,
                                  c.variables, c.start, c.end, c.keep_attrs,
                                  c.keep_qcflags, c.missing_as_nan))

subsets_after(c, sites, i, subsets, io, one) ==
    IF ~one.ok THEN ApiRaise(one.exc, one.val, io \o one.io)
    ELSE subsets_from(c, sites, i + 1, SetItem(subsets, sites[i], one.val), io \o one.io)

\* get_subsets: c holds the server and the arguments passed on to get_subset.
get_subsets(c, sites) == subsets_from(c, sites, 1, EmptyDict, <<>>)

(***************************************************************************)
(* flux_api.py: _get_location and get_sites                                *)
(***************************************************************************)

\* The levels from the lowest up.
LocationLevels_Ascending == <<<<"L","3">>, <<"L","4">>, <<"L","5">>, <<"L","6">>>>

\* The processing levels _get_location tries, in order.
LocationLevels == <<L6, <<"L","5">>, <<"L","4">>, <<"L","3">>>>

\* bool(dataset): a dataset is true when it holds a data variable.
DatasetTruthy(ds) == DOMAIN ds.variables \ ds.coords # {}

\* attrs.get(key)
AttrGet(attrs, key) == IF key \in DOMAIN attrs THEN attrs[key] ELSE None

\* The dict _get_location returns, from the dataset the loop left bound:
\* bound is None when no level opened.
location_of(site, bound, io) ==
    IF bound = None
    THEN ApiRaise("UnboundLocalError",
                  <<"cannot access local variable ", "'", "dataset", "'",
                    " where it is not associated with a value">>, io)
    ELSE IF <<"longitude">> \notin bound[1].coords
    THEN ApiRaise("KeyError", KeyErrorMsg(<<"longitude">>), io)
    ELSE IF <<"latitude">> \notin bound[1].coords
    THEN ApiRaise("KeyError", KeyErrorMsg(<<"latitude">>), io)
    ELSE ApiOk([site |-> site,
                longitude |-> bound[1].variables[<<"longitude">>].data[1][1],
                latitude |-> bound[1].variables[<<"latitude">>].data[1][1],
                vegetation |-> AttrGet(bound[1].attrs, "vegetation"),
                canopy_height |-> AttrGet(bound[1].attrs, "canopy_height"),
                start |-> AttrGet(bound[1].attrs, "time_coverage_start"),
                end |-> AttrGet(bound[1].attrs, "time_coverage_end")], io)

\* The loop over the processing levels from the i-th on: a level that fails
\* is passed over, a dataset that is true ends the loop.
RECURSIVE location_from(_, _, _, _, _, _)
RECURSIVE location_after(_, _, _, _, _, _, _)
location_from(srv, site, version, i, bound, io) ==
    IF i > Len(LocationLevels) THEN location_of(site, bound, io)
    ELSE location_after(srv, site, version, i, bound, io,
                        get_dataset(srv, site, version, LocationLevels[i], FALSE))

location_after(srv, site, version, i, bound, io, dataset) ==
    IF ~dataset.ok THEN location_from(srv, site, version, i + 1, bound, io \o dataset.io)
    ELSE IF DatasetTruthy(dataset.val)
    THEN location_of(site, Some(dataset.val), io \o dataset.io)
    ELSE location_from(srv, site, version, i + 1, Some(dataset.val), io \o dataset.io)

location_of_version(srv, site, ver) ==
    IF ~ver.ok THEN ver ELSE location_from(srv, site, ver.val, 1, None, ver.io)

\* _get_location(site)
_get_location(srv, site) == location_of_version(srv, site, resolve_version(srv, site, None))

\* The keys of the dict get_catalog_items returns, in insertion order.
RECURSIVE KeysFrom(_, _, _)
KeysFrom(doc, i, keys) ==
    IF i > Len(doc) THEN keys
    ELSE KeysFrom(doc, i + 1,
                  IF Matches(doc[i], "catalogRef") /\ doc[i].name \notin Range(keys)
                  THEN Append(keys, doc[i].name) ELSE keys)

SitesErrorPrefix == <<"Error: fail to get sites: ">>

\* Pool(processes=6)
processes == 6

\* The site names of get_sites: the keys of the site catalog, or the error.
site_names_of(srv, cat_url, items) ==
    IF ~items.ok THEN ApiRaise("Exception", SitesErrorPrefix \o items.val, items.io)
    ELSE ApiOk(KeysFrom(Fetch(srv, cat_url).doc, 1, <<>>), items.io)

site_names(srv) ==
    site_names_of(srv, get_catalog_url("site", <<>>).val,
                  catalog_items(srv, get_catalog_url("site", <<>>).val, "catalogRef"))

\* The pool of get_sites while pool.map runs: the tasks in order, the next
\* task to hand out, the tasks the workers run, the results that arrived by
\* task, how often each task was run, and the first failure that arrived.
\* The workers keep nothing from one task to the next, so the pool is told
\* by the tasks that run, at most one per worker, not by which worker runs
\* which.
Pool(sites, io) ==
    [sites |-> sites, io |-> io, next |-> 1, running |-> {},
     locations |-> EmptyDict, lookups |-> [i \in 1..Len(sites) |-> 0], error |-> None]

\* Results stored in the order they arrive.
pool_store_Arrival(locations, i, result) ==
    SetItem(locations, Cardinality(DOMAIN locations) + 1, result)

\* A result that arrives is stored by the index of its task.
pool_store(locations, i, result) == SetItem(locations, i, result)

\* The rows of the frame: one per location, in task order, with the point
\* of its coordinates.
RowOf(location) == location @@ [geometry |-> <<location.longitude, location.latitude>>]

\* pool.map has every result: the first failure that arrived is raised;
\* otherwise the locations in task order become the rows.  A frame without
\* rows has no longitude column.
map_result(pool) ==
    IF pool.error # None
    THEN ApiRaise(pool.error[1].exc, pool.error[1].val, pool.io)
    ELSE IF Len(pool.sites) = 0
    THEN ApiRaise("AttributeError",
                  <<"'DataFrame' object has no attribute 'longitude'">>, pool.io)
    ELSE ApiOk([i \in 1..Len(pool.sites) |-> RowOf(pool.locations[i].val)], pool.io)

(***************************************************************************)
(* Inputs of get_catalog_items: catalog URLs, server answers, documents.   *)
(***************************************************************************)

RECURSIVE Join(_, _)
\* sep.join(parts)
Join(parts, sep) ==
    IF Len(parts) = 0 THEN <<>>
    ELSE IF Len(parts) = 1 THEN parts[1]
    ELSE parts[1] \o sep \o Join(Tail(parts), sep)

\* A file name spelt from its underscore-separated parts and its extension.
FileName(parts, ext) == Join(parts, <<"_">>) \o ext

\* Parts of dataset file names: "A", "", "Daily", "MONTHLY", "annual",
\* "Cumulative", "summary": a name that is no label, the empty part, and the
\* five labels in mixed case.
SegStrs ==
    {<<"A">>, <<>>, <<"D","a","i","l","y">>, <<"M","O","N","T","H","L","Y">>, <<"a","n","n","u","a","l">>,
     <<"C","u","m","u","l","a","t","i","v","e">>, <<"s","u","m","m","a","r","y">>}

\* The longest file name tried, in parts.
MaxSegs == 4

\* The most elements a document of the multi-element inputs holds.
MaxElems == 3

SeqsUpTo(S, n) == UNION {[1..k -> S] : k \in 0..n}

FileNames ==
    {FileName(parts, ext) : parts \in SeqsUpTo(SegStrs, MaxSegs) \ {<<>>},
                            ext \in {NcExt, <<".","t","x","t">>}}

XmlHref(site) == site \o <<"/">> \o CatalogXml

\* catalogRef elements: two sites, a second element named "A" with another
\* href, and a catalogRef of a foreign namespace.
CatalogRefElements ==
    {Element(xmlns, "catalogRef", <<"A">>, XmlHref(<<"A">>)),
     Element(xmlns, "catalogRef", <<"B">>, XmlHref(<<"B">>)),
     Element(xmlns, "catalogRef", <<"A">>, XmlHref(<<"B">>)),
     Element("other", "catalogRef", <<"C">>, XmlHref(<<"C">>))}

\* dataset elements: A_L6.nc, B_L6.nc, A_L6_Daily.nc, A_L6_DAILY.nc,
\* A_L6_Daily.txt, the container dataset "default", and a dataset of a foreign
\* namespace.
DatasetElements ==
    {Element(xmlns, "dataset", FileName(<<<<"A">>, L6>>, NcExt), <<>>),
     Element(xmlns, "dataset", FileName(<<<<"B">>, L6>>, NcExt), <<>>),
     Element(xmlns, "dataset", FileName(<<<<"A">>, L6, <<"D","a","i","l","y">>>>, NcExt), <<>>),
     Element(xmlns, "dataset", FileName(<<<<"A">>, L6, <<"D","A","I","L","Y">>>>, NcExt), <<>>),
     Element(xmlns, "dataset", FileName(<<<<"A">>, L6, <<"D","a","i","l","y">>>>, <<".","t","x","t">>), <<>>),
     Element(xmlns, "dataset", DefaultDir, <<>>),
     Element("other", "dataset", FileName(<<<<"A">>, L6, <<"a","n","n","u","a","l">>>>, NcExt), <<>>)}

Documents == SeqsUpTo(CatalogRefElements \cup DatasetElements, MaxElems)

\* What a server may answer: a document, a malformed body, an error status.
Responses ==
    {Response(200, TRUE, d) : d \in Documents}
    \cup {Response(200, FALSE, <<>>), Response(404, TRUE, <<>>),
          Response(503, TRUE, <<>>)}

SiteCatalogUrl == get_catalog_url("site", <<>>).val

DatasetCatalogUrl(site, version, level) ==
    get_catalog_url("dataset", [site |-> site, version |-> version,
                                processing_level |-> level]).val

\* The site catalog, and the dataset catalog of a site that is itself named
\* "catalog".
ItemUrls ==
    {SiteCatalogUrl,
     DatasetCatalogUrl(<<"c","a","t","a","l","o","g">>, <<"v">>, L6)}

(***************************************************************************)
(* SpecItems: one call of get_catalog_items against one server answer.     *)
(***************************************************************************)
InitItems ==
    /\ pc = "call"
    /\ \/ call \in [url : ItemUrls, itype : {"catalogRef", "dataset"},
                    resp : Responses]
       \/ \E n \in FileNames :
            call = [url |-> DatasetCatalogUrl(<<"A">>, <<"v">>, L6),
                    itype |-> "dataset",
                    resp |-> Response(200, TRUE,
                                      <<Element(xmlns, "dataset", n, <<>>)>>)]
    /\ ret = Ok(<<>>)
    /\ prev = NoCall

GetCatalogItems ==
    /\ pc = "call"
    /\ ret' = get_catalog_items(call.url, call.itype, call.resp)
    /\ pc' = "done"
    /\ UNCHANGED <<call, prev>>

NextItems == GetCatalogItems

SpecItems == InitItems /\ [][NextItems]_vars


\* The positions of the document's elements of the THREDDS namespace with
\* the given tag.
TaggedAt(doc, tag) == {i \in 1..Len(doc) : doc[i].ns = "thredds" /\ doc[i].tag = tag}

SetMax(S) == CHOOSE m \in S : \A x \in S : x <= m

\* The url without its trailing catalog.xml.
UrlDir(url) == SubSeq(url, 1, Len(url) - Len(CatalogXml))

\* catalog.xml occurs in the url once, at its end.
OnlyTrailingCatalogXml(url) ==
    /\ EndsWith(url, CatalogXml)
    /\ ~Contains(UrlDir(url), CatalogXml)
    /\ ~Contains(SubSeq(url, 1, Len(url) - 1), CatalogXml)

ItemsReturned(itype) == pc = "done" /\ call.itype = itype /\ ret.ok

\* C3: get_catalog_items(url, "catalogRef") returns a mapping whose keys are
\* exactly the name attributes of the document's catalogRef elements and whose
\* value for a name is the url with catalog.xml replaced by the href of the
\* element of that name (the last one, where several carry the name); dataset
\* elements contribute nothing.
C3_CatalogRefItems ==
    ItemsReturned("catalogRef") =>
        LET doc == call.resp.doc
            refs == TaggedAt(doc, "catalogRef")
        IN  /\ DOMAIN ret.val = {doc[i].name : i \in refs}
            /\ \A n \in DOMAIN ret.val :
                 LET last == SetMax({i \in refs : doc[i].name = n})
                 IN  /\ ret.val[n] = Replace(call.url, CatalogXml, doc[last].href)
                     /\ OnlyTrailingCatalogXml(call.url) =>
                          ret.val[n] = UrlDir(call.url) \o doc[last].href

\* C3 witness: the site catalog lists A and B next to a dataset element, and
\* the two site catalog URLs come back.
C3_Witness ==
    /\ ItemsReturned("catalogRef")
    /\ call.url = SiteCatalogUrl
    /\ \E i \in 1..Len(call.resp.doc) : call.resp.doc[i].tag = "dataset"
    /\ DOMAIN ret.val = {<<"A">>, <<"B">>}
    /\ ret.val[<<"A">>] = BaseUrl \o <<"A">> \o <<"/">> \o CatalogXml
    /\ ret.val[<<"B">>] = BaseUrl \o <<"B">> \o <<"/">> \o CatalogXml

\* The dataset elements get_catalog_items accepts: THREDDS dataset elements
\* whose name ends in ".nc".
AcceptedAt(doc) == {i \in TaggedAt(doc, "dataset") : EndsWith(doc[i].name, NcExt)}

\* The file name without its three-character extension.
Stem(name) == SubSeq(name, 1, Len(name) - 3)

Underscores(s) == {i \in 1..Len(s) : s[i] = "_"}

\* The number of underscore-separated segments, and the last of them.
NumSegments(s) == Cardinality(Underscores(s)) + 1

LastSegment(s) ==
    IF Underscores(s) = {} THEN s
    ELSE SubSeq(s, SetMax(Underscores(s)) + 1, Len(s))

\* The label C4 states: the lower-cased last segment when it matches a label
\* case-insensitively, the default label otherwise.
LabelByLastSegment(name) ==
    IF Lower(LastSegment(Stem(name))) \in DatasetLabels
    THEN Lower(LastSegment(Stem(name)))
    ELSE DEFAULT_DATASET

\* The same, for file names of at least three segments only.
LabelByLastOfThree(name) ==
    IF NumSegments(Stem(name)) >= 3
    THEN LabelByLastSegment(name)
    ELSE DEFAULT_DATASET

\* C4 as stated: for every file name ending in ".nc", whatever its number of
\* segments, the label is the lower-cased last segment when that matches one
\* of the five labels, and 30min otherwise.
C4_LabelAnySegments ==
    ItemsReturned("dataset") =>
        LET doc == call.resp.doc
        IN  DOMAIN ret.val = {LabelByLastSegment(doc[i].name) : i \in AcceptedAt(doc)}

\* C4 amended: the label is the lower-cased last segment when the file name
\* has at least three segments and the last matches one of the five labels,
\* and 30min otherwise.
C4_LabelThreeSegments ==
    ItemsReturned("dataset") =>
        LET doc == call.resp.doc
        IN  DOMAIN ret.val = {LabelByLastOfThree(doc[i].name) : i \in AcceptedAt(doc)}

\* C4 witness: A_L6_Daily.nc is labelled daily.
C4_Witness ==
    /\ ItemsReturned("dataset")
    /\ call.resp.doc = <<Element("thredds", "dataset",
                                 <<"A","_","L","6","_","D","a","i","l","y",".","n","c">>, <<>>)>>
    /\ DOMAIN ret.val = {<<"d","a","i","l","y">>}

\* C5: with itype "dataset", elements whose name does not end in ".nc" never
\* appear in the result; the value of a label is the url with catalog.xml
\* replaced by the file name and /catalog/ by /dodsC/, for the last accepted
\* element of that label in document order.
C5_DatasetItems ==
    ItemsReturned("dataset") =>
        LET doc == call.resp.doc
            acc == AcceptedAt(doc)
        IN  /\ DOMAIN ret.val = {ds_name(doc[i].name) : i \in acc}
            /\ \A k \in DOMAIN ret.val :
                 LET last == SetMax({i \in acc : ds_name(doc[i].name) = k})
                 IN  ret.val[k] =
                       Replace(Replace(call.url, CatalogXml, doc[last].name),
                               CatalogSeg, DodsCSeg)
            /\ \A i \in TaggedAt(doc, "dataset") \ acc : \A k \in DOMAIN ret.val :
                 ret.val[k] # Replace(Replace(call.url, CatalogXml, doc[i].name),
                                      CatalogSeg, DodsCSeg)

\* C5 witness: A_L6.nc, a .txt file and B_L6.nc in this order leave one 30min
\* entry, the data-access URL of B_L6.nc.
C5_Witness ==
    /\ ItemsReturned("dataset")
    /\ Len(call.resp.doc) = 3
    /\ call.resp.doc[1].name = <<"A","_","L","6",".","n","c">>
    /\ call.resp.doc[1].ns = "thredds"
    /\ call.resp.doc[2].name = <<"A","_","L","6","_","D","a","i","l","y",".","t","x","t">>
    /\ call.resp.doc[2].ns = "thredds"
    /\ call.resp.doc[3].name = <<"B","_","L","6",".","n","c">>
    /\ call.resp.doc[3].ns = "thredds"
    /\ DOMAIN ret.val = {DEFAULT_DATASET}
    /\ EndsWith(ret.val[DEFAULT_DATASET], <<"/","d","e","f","a","u","l","t","/","B","_","L","6",".","n","c">>)
    /\ ~Contains(ret.val[DEFAULT_DATASET], CatalogSeg)


(***************************************************************************)
(* Flux tower files.                                                       *)
(***************************************************************************)
LatName == <<"latitude">>
LonName == <<"longitude">>
CrsName == <<"crs">>
AH == <<"AH">>
Flu == <<"Flu">>

\* The quality-flag variable paired with a variable.
QCFlagOf(var) == var \o <<"_QCFlag">>

CoordNames == {TimeName, LatName, LonName}

AllDims == {"time", "latitude", "longitude"}

Attrs(long_name, units) == [long_name |-> <<long_name>>, units |-> <<units>>]

SiteAttrs(site_name) == [site_name |-> site_name, time_step |-> <<"30">>]

\* A file: the time axis, the cells of AH and of AH_QCFlag along it, and
\* whether Flu has a paired quality flag.  crs is a scalar variable.
FluxFile(site_name, times, ah, ah_qc, flu_has_qc, source) ==
    LET n == Len(times)
        base ==
            (TimeName :> Variable({"time"}, [i \in 1..n |-> Num(times[i])],
                                  Attrs("time", "days since 1800-01-01"), NoAttrs))
            @@ (LatName :> Variable({"latitude"}, <<Num(-13)>>,
                                    Attrs("latitude", "degrees north"), NoAttrs))
            @@ (LonName :> Variable({"longitude"}, <<Num(131)>>,
                                    Attrs("longitude", "degrees east"), NoAttrs))
            @@ (CrsName :> Variable({}, <<Num(FLUX_MISSING_VALUE)>>,
                                    Attrs("WGS84", "1"), NoAttrs))
            @@ (AH :> Variable(AllDims, ah, Attrs("Absolute humidity", "g/m^3"),
                               NoAttrs))
            @@ (QCFlagOf(AH) :> Variable(AllDims, ah_qc,
                                         Attrs("AH QC flag", "1"), NoAttrs))
            @@ (Flu :> Variable(AllDims, [i \in 1..n |-> Num(400 + i)],
                                Attrs("Up-welling longwave", "W/m^2"), NoAttrs))
        flu_qc ==
            (QCFlagOf(Flu) :> Variable(AllDims, [i \in 1..n |-> Num(0)],
                                       Attrs("Flu QC flag", "1"), NoAttrs))
    IN  Dataset(SiteAttrs(site_name), CoordNames,
                IF flu_has_qc THEN base @@ flu_qc ELSE base, source)

\* Two records half an hour apart, the second on a midnight.
TwoTimes == <<Day - HalfHour, Day>>

\* The file served when the content does not matter.
PlainFile(source) ==
    FluxFile(<<"Adelaide River">>, TwoTimes, <<Num(FLUX_MISSING_VALUE), Num(5)>>,
             <<Num(0), Num(0)>>, TRUE, source)

\* The cells a data variable may hold on the wire: the sentinel or a value.
WireCells == {Num(FLUX_MISSING_VALUE), Num(5)}

(***************************************************************************)
(* Inputs of the catalog-level API calls.                                  *)
(***************************************************************************)

\* The most elements a catalog document of the API inputs holds.
MaxApiElems == 2

ApiResponses ==
    {Response(200, TRUE, d) :
        d \in SeqsUpTo(CatalogRefElements \cup DatasetElements, MaxApiElems)}
    \cup {Response(200, FALSE, <<>>), Response(404, TRUE, <<>>),
          Response(503, TRUE, <<>>)}

SiteA == <<"A">>
SiteB == <<"B">>
VersionV == <<"v">>
L3 == <<"L","3">>
BadType == <<"bad-type">>
Daily == <<"d","a","i","l","y">>

VersionCatalogUrl(site) == get_catalog_url("version", [site |-> site]).val

LevelCatalogUrl(site, version) ==
    get_catalog_url("processing_level", [site |-> site, version |-> version]).val

\* The catalog URLs of site A, version v.
SiteACatalogUrls ==
    {VersionCatalogUrl(SiteA), LevelCatalogUrl(SiteA, VersionV),
     DatasetCatalogUrl(SiteA, VersionV, L3), DatasetCatalogUrl(SiteA, VersionV, L6)}

\* The data-access URLs a catalog answer lists under a dataset catalog URL.
ListedFiles(url, resp) ==
    LET items == get_catalog_items(url, "dataset", resp)
    IN  IF items.ok THEN Range(items.val) ELSE {}

\* A server that answers resp for every catalog of site A and, when openable,
\* holds a file behind every data-access URL those answers list.
UniformServer(resp, openable) ==
    LET urls == IF openable
                THEN ListedFiles(DatasetCatalogUrl(SiteA, VersionV, L3), resp)
                     \cup ListedFiles(DatasetCatalogUrl(SiteA, VersionV, L6), resp)
                ELSE {}
    IN  Server([u \in SiteACatalogUrls |-> resp], [u \in urls |-> PlainFile(u)])

\* A_L3.nc
FileA == FileName(<<SiteA, L3>>, NcExt)

FileAUrl == DatasetUrl(DatasetCatalogUrl(SiteA, VersionV, L3),
                       Element(xmlns, "dataset", FileA, <<>>))

\* A server whose L3 catalog of site A lists A_L3.nc, with the given file
\* content behind it.
FileServer(file) ==
    Server(DatasetCatalogUrl(SiteA, VersionV, L3)
               :> Response(200, TRUE, <<Element(xmlns, "dataset", FileA, <<>>)>>),
           FileAUrl :> file)

ApiServers == {UniformServer(r, o) : r \in ApiResponses, o \in BOOLEAN}

\* Servers that differ in the cells of AH and AH_QCFlag.
CellServers ==
    {FileServer(FluxFile(<<"Adelaide River">>, TwoTimes, ah, qc, TRUE, FileAUrl)) :
        ah \in [1..2 -> WireCells], qc \in [1..2 -> WireCells]}

ApiCalls ==
    [fn : {"get_versions"}, srv : ApiServers, site : {SiteA, SiteB}]
    \cup [fn : {"get_processing_levels"}, srv : ApiServers, site : {SiteA, SiteB},
          version : {VersionV}]
    \cup [fn : {"get_dataset"}, srv : ApiServers \cup CellServers,
          site : {SiteA, SiteB}, version : {VersionV}, processing_level : {L3},
          missing_as_nan : BOOLEAN]
    \cup [fn : {"get_l6_dataset"}, srv : ApiServers, site : {SiteA, SiteB},
          version : {VersionV}, ds_type : {DEFAULT_DATASET, Daily, BadType},
          missing_as_nan : BOOLEAN]

(***************************************************************************)
(* SpecApi: one call of a catalog-level API function against one server.   *)
(***************************************************************************)
InitApi ==
    /\ pc = "call"
    /\ call \in ApiCalls
    /\ ret = Ok(<<>>)
    /\ prev = NoCall

GetVersions ==
    /\ pc = "call"
    /\ call.fn = "get_versions"
    /\ ret' = get_versions(call.srv, call.site)
    /\ pc' = "done"
    /\ UNCHANGED <<call, prev>>

GetProcessingLevels ==
    /\ pc = "call"
    /\ call.fn = "get_processing_levels"
    /\ ret' = get_processing_levels(call.srv, call.site, call.version)
    /\ pc' = "done"
    /\ UNCHANGED <<call, prev>>

GetDataset ==
    /\ pc = "call"
    /\ call.fn = "get_dataset"
    /\ ret' = get_dataset(call.srv, call.site, call.version, call.processing_level,
                          call.missing_as_nan)
    /\ pc' = "done"
    /\ UNCHANGED <<call, prev>>

GetL6Dataset ==
    /\ pc = "call"
    /\ call.fn = "get_l6_dataset"
    /\ ret' = get_l6_dataset(call.srv, call.site, call.version, call.ds_type,
                             call.missing_as_nan)
    /\ pc' = "done"
    /\ UNCHANGED <<call, prev>>

NextApi == GetVersions \/ GetProcessingLevels \/ GetDataset \/ GetL6Dataset

SpecApi == InitApi /\ [][NextApi]_vars


\* The catalog the call fetches, and the item type it looks for.
CallCatalogUrl(c) ==
    CASE c.fn = "get_versions" -> VersionCatalogUrl(c.site)
      [] c.fn = "get_processing_levels" -> LevelCatalogUrl(c.site, c.version)
      [] c.fn = "get_dataset" ->
            DatasetCatalogUrl(c.site, c.version, c.processing_level)
      [] c.fn = "get_l6_dataset" -> DatasetCatalogUrl(c.site, c.version, L6)

CallItemType(c) ==
    IF c.fn \in {"get_versions", "get_processing_levels"} THEN "catalogRef"
    ELSE "dataset"

OpensDataset(c) == c.fn \in {"get_dataset", "get_l6_dataset"}

\* The dataset type the call asks for.
CallDatasetType(c) == IF c.fn = "get_dataset" THEN DEFAULT_DATASET ELSE c.ds_type

NoError == <<>>

\* The message of the first failure inside the call, NoError when there is
\* none: a failed GET or parse, a dataset type the catalog does not list, a
\* file that does not open.
OriginalError(c) ==
    LET url == CallCatalogUrl(c)
        resp == Fetch(c.srv, url)
        items == get_catalog_items(url, CallItemType(c), resp)
    IN  IF resp.status >= 400 THEN HttpErrorMsg(resp.status, url)
        ELSE IF ~resp.wellformed THEN items.val
        ELSE IF ~OpensDataset(c) THEN NoError
        ELSE IF CallDatasetType(c) \notin DOMAIN items.val
        THEN IF c.fn = "get_dataset"
             THEN <<"'">> \o DEFAULT_DATASET \o <<"'">>
             ELSE <<"Requested ", "'">> \o c.ds_type
                  \o <<"'", " dataset is not found!">>
        ELSE IF items.val[CallDatasetType(c)] \notin DOMAIN c.srv.files
        THEN open_dataset(c.srv, items.val[CallDatasetType(c)]).val
        ELSE NoError

\* The fixed text an operation's error starts with.
ErrorStart(c) ==
    CASE c.fn = "get_versions" -> "Error: fail to get versions for site "
      [] c.fn = "get_processing_levels" ->
            "Error: fail to get processing-levels for site "
      [] c.fn = "get_dataset" -> "Error: fail to get dataset for site "
      [] c.fn = "get_l6_dataset" -> "Error: fail to get L6 dataset for site "

\* The identifying parameters of the call.
CallIdentifiers(c) ==
    CASE c.fn = "get_versions" -> {c.site}
      [] c.fn = "get_processing_levels" -> {c.site, c.version}
      [] c.fn = "get_dataset" -> {c.site, c.version, c.processing_level}
      [] c.fn = "get_l6_dataset" -> {c.site, c.version}

\* The text names the parameter: it holds the parameter between quotes.
Quotes(msg, param) == Contains(msg, <<"'">> \o param \o <<"'">>)

ApiFns == {"get_versions", "get_processing_levels", "get_dataset", "get_l6_dataset"}

ApiReturned == pc = "done" /\ call.fn \in ApiFns

\* C6: every failure inside get_versions, get_processing_levels, get_dataset
\* and get_l6_dataset is re-raised as one Exception whose text starts with the
\* operation's fixed prefix, names every identifying parameter of the call and
\* ends with the original message; a dataset type the L6 catalog does not
\* list gives "Requested '<type>' dataset is not found!".  Without a failure
\* the call returns.
C6_FailuresWrapped ==
    ApiReturned =>
        LET orig == OriginalError(call)
        IN  /\ orig = NoError <=> ret.ok
            /\ orig # NoError =>
                 /\ ret.exc = "Exception"
                 /\ ret.val[1] = ErrorStart(call)
                 /\ \A param \in CallIdentifiers(call) : Quotes(ret.val, param)
                 /\ EndsWith(ret.val, orig)

\* C6 witness: get_l6_dataset asked for a type the catalog, which lists a
\* 30min file, does not hold.
C6_Witness ==
    /\ ApiReturned
    /\ call.fn = "get_l6_dataset"
    /\ call.ds_type = BadType
    /\ Fetch(call.srv, CallCatalogUrl(call)).status = 200
    /\ Fetch(call.srv, CallCatalogUrl(call)).doc # <<>>
    /\ ~ret.ok
    /\ ret.val = <<"Error: fail to get L6 dataset for site ", "'", "A", "'",
                   ", version ", "'", "v", "'", ": ",
                   "Requested ", "'", "bad-type", "'", " dataset is not found!">>


DatasetReturned ==
    /\ pc = "done"
    /\ call.fn \in {"get_dataset", "get_l6_dataset"}
    /\ ret.ok

\* The cells of a variable that hold the sentinel, and those that are NaN.
SentinelCells(var) == {i \in 1..Len(var.data) : var.data[i] = Num(FLUX_MISSING_VALUE)}

NaNCells(var) == {i \in 1..Len(var.data) : var.data[i] = NaN}

\* C7: opened with missing_as_nan, no variable other than a coordinate holds
\* -9999, exactly the cells that held -9999 on the wire are NaN, every other
\* cell keeps its value and the coordinate variables are unchanged; opened
\* without it, every cell is as on the wire and none is NaN.
C7_MissingAsNan ==
    DatasetReturned =>
        LET wire == call.srv.files[ret.val.source]
            ds == ret.val
        IN  /\ DOMAIN ds.variables = DOMAIN wire.variables
            /\ ds.coords = wire.coords
            /\ \A n \in DOMAIN ds.variables :
                 LET v == ds.variables[n]
                     w == wire.variables[n]
                 IN  /\ Len(v.data) = Len(w.data)
                     /\ (call.missing_as_nan /\ n \notin ds.coords) =>
                          /\ SentinelCells(v) = {}
                          /\ NaNCells(v) = SentinelCells(w)
                          /\ Cardinality(NaNCells(v)) = Cardinality(SentinelCells(w))
                          /\ \A i \in 1..Len(v.data) \ SentinelCells(w) :
                               v.data[i] = w.data[i]
                     /\ (call.missing_as_nan /\ n \in ds.coords) => v = w
                     /\ ~call.missing_as_nan =>
                          /\ v.data = w.data
                          /\ NaNCells(v) = {}

\* C7 witness: AH holds -9999 then 5 on the wire and comes back as NaN then
\* 5, its quality flag holds 5 then -9999 and comes back as 5 then NaN.
C7_Witness ==
    /\ DatasetReturned
    /\ call.missing_as_nan
    /\ call.srv.files[ret.val.source].variables[AH].data
         = <<Num(FLUX_MISSING_VALUE), Num(5)>>
    /\ ret.val.variables[AH].data = <<NaN, Num(5)>>
    /\ ret.val.variables[QCFlagOf(AH)].data = <<Num(5), NaN>>
    /\ ret.val.variables[TimeName].data = <<Num(Day - HalfHour), Num(Day)>>


(***************************************************************************)
(* Inputs of get_subset.                                                   *)
(***************************************************************************)

\* The most names a requested variable list holds.
MaxVars == 2

\* The most records a file of the time-slicing inputs holds.
MaxTimes == 3

BadVar == <<"bad-var">>
BadVar2 == <<"Bad2">>

\* The names a request may hold: data variables, quality flags, a
\* coordinate, the scalar crs, and two names no file holds.
VarNames == {AH, QCFlagOf(AH), Flu, QCFlagOf(Flu), TimeName, CrsName, BadVar, BadVar2}

VarLists == SeqsUpTo(VarNames, MaxVars)

\* Timestamps around two midnights, one of them half a second past the first.
TimeGrid == {Day - HalfHour, Day, Day + 1, Day + HalfHour, 2 * Day - HalfHour, 2 * Day}

\* The time axes: increasing, between one and MaxTimes records.
TimeAxes ==
    {ts \in SeqsUpTo(TimeGrid, MaxTimes) :
        /\ Len(ts) >= 1
        /\ \A i \in 1..(Len(ts) - 1) : ts[i] < ts[i + 1]}

\* A file with the given time axis; every cell of AH holds a value.
TimedFile(times, flu_has_qc) ==
    FluxFile(<<"Adelaide River">>, times, [i \in 1..Len(times) |-> Num(5)],
             [i \in 1..Len(times) |-> Num(0)], flu_has_qc, FileAUrl)

\* The start and end arguments: None, datetimes on and off the time grid,
\* strs written to the second, to the minute and to the day, "" and a text
\* that is no ISO date.
Bounds ==
    {NoBound, StrBound("empty", 0), StrBound("bad", 0)}
    \cup {DatetimeBound(t) : t \in {Day - HalfHour, Day, Day + 900, 2 * Day}}
    \cup {StrBound("second", t) : t \in {Day, Day + HalfHour}}
    \cup {StrBound("minute", Day)}
    \cup {StrBound("day", t) : t \in {Day, 2 * Day}}

V2 == <<"2","0","2","4","_","v","2">>
V10 == <<"2","0","2","4","_","v","1","0">>

VersionFileUrl(version) ==
    DatasetUrl(DatasetCatalogUrl(SiteA, version, L3),
               Element(xmlns, "dataset", FileA, <<>>))

\* A server that lists the versions 2024_v2 and 2024_v10 of site A, and
\* holds A_L3.nc under each.
VersionsServer ==
    Server((VersionCatalogUrl(SiteA)
               :> Response(200, TRUE,
                           <<Element(xmlns, "catalogRef", V10, XmlHref(V10)),
                             Element(xmlns, "catalogRef", V2, XmlHref(V2))>>))
           @@ [u \in {DatasetCatalogUrl(SiteA, v, L3) : v \in {V2, V10}} |->
                  Response(200, TRUE, <<Element(xmlns, "dataset", FileA, <<>>)>>)],
           [u \in {VersionFileUrl(v) : v \in {V2, V10}} |-> PlainFile(u)])

\* A server that lists no version of site A.
NoVersionsServer ==
    Server(VersionCatalogUrl(SiteA) :> Response(200, TRUE, <<>>), <<>>)

SubsetCall(srv, site, version, variables, start, end, keep_attrs, keep_qcflags, missing_as_nan) ==
    [fn |-> "get_subset", srv |-> srv, site |-> site, version |-> version,
     processing_level |-> L3, variables |-> variables, start |-> start,
     end |-> end, keep_attrs |-> keep_attrs, keep_qcflags |-> keep_qcflags,
     missing_as_nan |-> missing_as_nan]

\* Calls that vary the variable list.
IsVariablesCall(c) ==
    \E q \in BOOLEAN, site \in {SiteA, SiteB}, vs \in VarLists,
       ka \in BOOLEAN, kq \in BOOLEAN :
        c = SubsetCall(FileServer(TimedFile(TwoTimes, q)), site, Some(VersionV),
                       vs, NoBound, NoBound, ka, kq, FALSE)

\* Calls that vary the time axis and the bounds.
IsTimeCall(c) ==
    \E ts \in TimeAxes, vs \in {<<>>, <<AH>>, <<CrsName>>},
       s \in Bounds, e \in Bounds :
        c = SubsetCall(FileServer(TimedFile(ts, TRUE)), SiteA, Some(VersionV),
                       vs, s, e, TRUE, TRUE, FALSE)

\* Calls that leave the version out.
IsLatestCall(c) ==
    \E srv \in {VersionsServer, NoVersionsServer}, nan \in BOOLEAN :
        c = SubsetCall(srv, SiteA, None, <<AH>>, NoBound, NoBound, TRUE, TRUE, nan)

(***************************************************************************)
(* SpecSubset: one call of get_subset against one server.                  *)
(***************************************************************************)
InitSubset ==
    /\ pc = "call"
    /\ IsVariablesCall(call) \/ IsTimeCall(call) \/ IsLatestCall(call)
    /\ ret = Ok(<<>>)
    /\ prev = NoCall

GetSubset ==
    /\ pc = "call"
    /\ call.fn = "get_subset"
    /\ ret' = get_subset(call.srv, call.site, call.version, call.processing_level,
                         call.variables, call.start, call.end, call.keep_attrs,
                         call.keep_qcflags, call.missing_as_nan)
    /\ pc' = "done"
    /\ UNCHANGED <<call, prev>>

NextSubset == GetSubset

SpecSubset == InitSubset /\ [][NextSubset]_vars


\* get_subset has acted on a call that names its version.
SubsetDone ==
    /\ pc = "done"
    /\ call.fn = "get_subset"
    /\ call.version # None

\* The dataset the call opens before it narrows it.
OpenedForSubset ==
    get_dataset(call.srv, call.site, call.version[1], call.processing_level,
                call.missing_as_nan)

\* C8: a non-empty variables list holding a name that is no variable of the
\* opened dataset makes get_subset fail with an Exception whose message is
\* "Error: fail to get subset for site '<site>': variable '<name>' not found"
\* for the first such name in list order; nothing is returned.
C8_UnknownVariableFails ==
    SubsetDone =>
        LET opened == OpenedForSubset
            unknown == {i \in 1..Len(call.variables) :
                           call.variables[i] \notin DOMAIN opened.val.variables}
        IN  (opened.ok /\ unknown # {}) =>
                /\ ~ret.ok
                /\ ret.exc = "Exception"
                /\ \E i \in unknown :
                     /\ \A j \in unknown : i <= j
                     /\ ret.val = <<"Error: fail to get subset for site ", "'">>
                                  \o call.site \o <<"'", ": variable ", "'">>
                                  \o call.variables[i] \o <<"'", " not found">>

\* C8 witness: the request ['Bad2', 'bad-var'] against site A fails naming
\* 'Bad2'.
C8_Witness ==
    /\ SubsetDone
    /\ call.variables = <<BadVar2, BadVar>>
    /\ ~ret.ok
    /\ ret.val = <<"Error: fail to get subset for site ", "'", "A", "'",
                   ": variable ", "'", "Bad2", "'", " not found">>

\* A name that is a quality flag.
IsQCFlagName(name) == Len(name) > 0 /\ name[Len(name)] = "_QCFlag"

\* C9: for a non-empty list of names the opened dataset holds, a returned
\* subset holds every requested name and, with keep_qcflags, the existing
\* '<v>_QCFlag' of every requested v that is no quality flag; its variables
\* other than coordinates are exactly those names, and every coordinate it
\* carries is one of the dataset.  Without start and end the call returns.
C9_SubsetVariables ==
    (SubsetDone /\ Len(call.variables) > 0) =>
        LET opened == OpenedForSubset
            requested == Range(call.variables)
        IN  (opened.ok /\ requested \subseteq DOMAIN opened.val.variables) =>
                LET flags == {QCFlagOf(v) : v \in {x \in requested : ~IsQCFlagName(x)}}
                             \cap DOMAIN opened.val.variables
                    expected == IF call.keep_qcflags THEN requested \cup flags
                                ELSE requested
                IN  /\ (call.start = NoBound /\ call.end = NoBound) => ret.ok
                    /\ ret.ok =>
                         /\ expected \subseteq DOMAIN ret.val.variables
                         /\ DOMAIN ret.val.variables \ ret.val.coords
                              = expected \ opened.val.coords
                         /\ ret.val.coords \subseteq opened.val.coords
                         /\ DOMAIN ret.val.variables
                              \subseteq expected \cup opened.val.coords

\* C9 witness: ['AH', 'Flu'] with keep_qcflags against a file that pairs a
\* quality flag with AH only gives AH, AH_QCFlag, Flu and the coordinates.
C9_Witness ==
    /\ SubsetDone
    /\ call.variables = <<AH, Flu>>
    /\ call.keep_qcflags
    /\ ret.ok
    /\ QCFlagOf(Flu) \notin DOMAIN call.srv.files[ret.val.source].variables
    /\ DOMAIN ret.val.variables
         = {AH, QCFlagOf(AH), Flu, TimeName, LatName, LonName}

\* The timestamps of a dataset.
TimeSet(ds) ==
    {ds.variables[TimeName].data[i][1] : i \in 1..Len(ds.variables[TimeName].data)}

SetMin(S) == CHOOSE x \in S : \A y \in S : x <= y

\* get_subset has returned from a call given a start or an end.
SlicedReturned ==
    /\ SubsetDone
    /\ ret.ok
    /\ \/ call.start.kind = "datetime"
       \/ call.end.kind = "datetime"
       \/ call.start.kind = "str" /\ call.start.reso # "empty"
       \/ call.end.kind = "str" /\ call.end.reso # "empty"

\* The time axis of the result is that of the source, in order.
InSourceOrder(ds) ==
    LET time == ds.variables[TimeName].data
    IN  \A i \in 1..(Len(time) - 1) : time[i][1] < time[i + 1][1]

\* C10 as stated: the returned time axis holds exactly the timestamps t of
\* the source with start <= t <= end, each bound taken as the instant it
\* parses to, an absent bound being the first or the last timestamp.
C10_ClosedInterval ==
    SlicedReturned =>
        LET source == TimeSet(call.srv.files[ret.val.source])
            lo == IF call.start.kind = "none" THEN SetMin(source) ELSE call.start.t
            hi == IF call.end.kind = "none" THEN SetMax(source) ELSE call.end.t
        IN  TimeSet(ret.val) = {t \in source : lo <= t /\ t <= hi}

\* The length of the period a str bound names.
PeriodOf(b) ==
    CASE b.reso = "day" -> 2 * 60 * 60 * 24
      [] b.reso = "minute" -> 2 * 60
      [] b.reso = "second" -> 2

\* C10, amended: the returned time axis holds exactly the timestamps t of the
\* source with lo <= t <= hi, where a datetime bound is itself, a str start is
\* the first instant and a str end the last instant of the period the str
\* names, and an absent bound is the first or the last timestamp; with
\* datetime bounds the first returned timestamp is >= start, the last is
\* <= end, and they equal the bounds that occur in the source.
C10_PeriodInterval ==
    SlicedReturned =>
        LET source == TimeSet(call.srv.files[ret.val.source])
            result == TimeSet(ret.val)
            lo == IF call.start.kind = "none" THEN SetMin(source) ELSE call.start.t
            hi == CASE call.end.kind = "none" -> SetMax(source)
                    [] call.end.kind = "datetime" -> call.end.t
                    [] call.end.kind = "str" -> call.end.t + PeriodOf(call.end) - 1
        IN  /\ result = {t \in source : lo <= t /\ t <= hi}
            /\ InSourceOrder(ret.val)
            /\ (call.start.kind = "datetime" /\ call.end.kind = "datetime"
                /\ result # {}) =>
                    /\ SetMin(result) >= call.start.t
                    /\ SetMax(result) <= call.end.t
                    /\ (call.start.t \in source /\ call.start.t <= call.end.t)
                          => SetMin(result) = call.start.t
                    /\ (call.end.t \in source /\ call.start.t <= call.end.t)
                          => SetMax(result) = call.end.t

\* C10 witness: with no start and the end given as the date of the first
\* midnight, a record half an hour past that midnight is returned and the
\* record on the next midnight is not.
C10_Witness ==
    /\ SlicedReturned
    /\ call.start = NoBound
    /\ call.end = StrBound("day", Day)
    /\ call.variables = <<AH>>
    /\ TimeSet(call.srv.files[ret.val.source])
         = {Day - HalfHour, Day + HalfHour, 2 * Day}
    /\ ret.val.variables[TimeName].data = <<Num(Day - HalfHour), Num(Day + HalfHour)>>
    /\ Len(ret.val.variables[AH].data) = 2


\* A start or end argument that is a str which is no ISO date ("" included).
InvalidStr(b) == b.kind = "str" /\ b.reso \in {"empty", "bad"}

\* The selection of the call keeps the time axis: no variables are named, or
\* some named variable runs along time.
KeepsTimeAxis(ds) ==
    \/ Len(call.variables) = 0
    \/ \E i \in 1..Len(call.variables) : "time" \in ds.variables[call.variables[i]].dims

\* C11: a start or end that is a str and no ISO date, the empty str included
\* and whatever the other bound is, makes get_subset raise ValueError
\* "Invalid ISO-format <start|end> time ..." naming that bound (the start when
\* both are invalid); no dataset is returned.
C11_InvalidBoundFails ==
    SubsetDone =>
        LET opened == OpenedForSubset
        IN  (/\ opened.ok
             /\ Range(call.variables) \subseteq DOMAIN opened.val.variables
             /\ KeepsTimeAxis(opened.val)
             /\ InvalidStr(call.start) \/ InvalidStr(call.end)) =>
                /\ ~ret.ok
                /\ ret.exc = "ValueError"
                /\ ret.val[1] = IF InvalidStr(call.start)
                                THEN "Invalid ISO-format start time "
                                ELSE "Invalid ISO-format end time "


\* C12: a subset returned with keep_attrs=False has an empty attribute
\* mapping on every variable, coordinates included, and the global attributes
\* of the opened dataset; with keep_attrs=True every variable it holds has
\* the attributes it has in the opened dataset.
C12_KeepAttrs ==
    (SubsetDone /\ ret.ok) =>
        LET opened == OpenedForSubset
        IN  /\ ret.val.attrs = opened.val.attrs
            /\ \A n \in DOMAIN ret.val.variables :
                 IF call.keep_attrs
                 THEN ret.val.variables[n].attrs = opened.val.variables[n].attrs
                 ELSE DOMAIN ret.val.variables[n].attrs = {}

\* C12 witness: AH requested without attributes comes back with AH, its
\* quality flag and the three coordinates, none with an attribute, and the
\* site name still among the global attributes.
C12_Witness ==
    /\ SubsetDone
    /\ ret.ok
    /\ ~call.keep_attrs
    /\ call.variables = <<AH>>
    /\ DOMAIN ret.val.variables = {AH, QCFlagOf(AH), TimeName, LatName, LonName}
    /\ \A n \in DOMAIN ret.val.variables : DOMAIN ret.val.variables[n].attrs = {}
    /\ DOMAIN OpenedForSubset.val.variables[TimeName].attrs # {}
    /\ ret.val.attrs.site_name = <<"Adelaide River">>

(***************************************************************************)
(* Inputs of the exports and of the calls that resolve the latest version. *)
(***************************************************************************)

\* The global attributes of a file the exports read.
ExportAttrs(time_step) ==
    [site_name |-> <<"Adelaide River">>, fluxnet_id |-> <<"A","U","-","A","d","r">>,
     time_step |-> time_step, time_zone |-> <<"Australia/Darwin">>,
     tower_height |-> <<"1","5","m">>, latitude |-> <<"-13.0769">>,
     longitude |-> <<"131.1178">>]

Step30 == <<"3","0">>
Step60 == <<"6","0">>
Step15 == <<"1","5">>

\* A file with the variables of FluxFile and VPD: Flu and VPD are OneFlux
\* variables, AH is not.  Record i holds Flu = 400 + i and VPD = 10 + i.
ExportFile(attrs, times, source) ==
    LET file == FluxFile(<<"Adelaide River">>, times, [i \in 1..Len(times) |-> Num(5)],
                         [i \in 1..Len(times) |-> Num(0)], TRUE, source)
    IN  Dataset(attrs, file.coords,
                file.variables
                @@ (VPD :> Variable(AllDims, [i \in 1..Len(times) |-> Num(10 + i)],
                                    Attrs("Vapour pressure deficit", "kPa"), NoAttrs)),
                source)

\* A server whose version catalog of site A lists the given versions in
\* document order, and that holds the L3 file of 2024_v2 and of 2024_v10.
ListingServer(listed) ==
    Server((VersionCatalogUrl(SiteA)
               :> Response(200, TRUE,
                           [i \in 1..Len(listed) |->
                               Element(xmlns, "catalogRef", listed[i], XmlHref(listed[i]))]))
           @@ [u \in {DatasetCatalogUrl(SiteA, v, L3) : v \in {V2, V10}} |->
                  Response(200, TRUE, <<Element(xmlns, "dataset", FileA, <<>>)>>)],
           [u \in {VersionFileUrl(v) : v \in {V2, V10}} |->
               ExportFile(ExportAttrs(Step30), TwoTimes, u)])

\* The same files behind a version catalog that answers 503.
BrokenVersionsServer ==
    Server((VersionCatalogUrl(SiteA) :> Response(503, TRUE, <<>>))
           @@ ListingServer(<<>>).catalog,
           ListingServer(<<>>).files)

VersionListings == {<<V10, V2>>, <<V2, V10>>, <<V2>>, <<V10>>, <<>>}

LatestServers == {ListingServer(l) : l \in VersionListings} \cup {BrokenVersionsServer}

LatestVersions == {None, Some(V2), Some(V10), Some(VersionV)}

XlsxName == <<"o",".","x","l","s","x">>
CsvName == <<"o",".","c","s","v">>
OutDir == <<"out">>

GoodHost == Host(TRUE, TRUE, FALSE)

GetterCall(fn, srv, version, variables) ==
    [fn |-> fn, srv |-> srv, site |-> SiteA, version |-> version,
     processing_level |-> L3, variables |-> variables]

ExcelCall(srv, host, filename, version) ==
    [fn |-> "export_as_excel", srv |-> srv, host |-> host, filename |-> filename,
     site |-> SiteA, version |-> version, processing_level |-> L3]

OnefluxCall(srv, host, outdir, version, processing_level) ==
    [fn |-> "export_oneflux_csv", srv |-> srv, host |-> host, outdir |-> outdir,
     site |-> SiteA, version |-> version, processing_level |-> processing_level]

IsLatestGetterCall(c) ==
    \E srv \in LatestServers, version \in LatestVersions :
        \/ c = GetterCall("get_global_attributes", srv, version, None)
        \/ c = GetterCall("get_variables", srv, version, None)
        \/ \E vs \in {None, Some(<<AH>>)} : c = GetterCall("get_attributes", srv, version, vs)

IsLatestSubsetCall(c) ==
    \E srv \in LatestServers, version \in LatestVersions :
        c = SubsetCall(srv, SiteA, version, <<AH>>, NoBound, NoBound, TRUE, TRUE, FALSE)

IsLatestExportCall(c) ==
    \E srv \in LatestServers, version \in LatestVersions :
        \/ c = ExcelCall(srv, GoodHost, XlsxName, version)
        \/ c = OnefluxCall(srv, GoodHost, OutDir, version, L3)

(***************************************************************************)
(* SpecLatest: one call of a function that takes an optional version,      *)
(* against a server that lists the versions of the site.                   *)
(***************************************************************************)
InitLatest ==
    /\ pc = "call"
    /\ IsLatestGetterCall(call) \/ IsLatestSubsetCall(call) \/ IsLatestExportCall(call)
    /\ ret = Ok(<<>>)
    /\ prev = NoCall

GetGlobalAttributes ==
    /\ pc = "call"
    /\ call.fn = "get_global_attributes"
    /\ ret' = get_global_attributes(call.srv, call.site, call.version, call.processing_level)
    /\ pc' = "done"
    /\ UNCHANGED <<call, prev>>

GetVariables ==
    /\ pc = "call"
    /\ call.fn = "get_variables"
    /\ ret' = get_variables(call.srv, call.site, call.version, call.processing_level)
    /\ pc' = "done"
    /\ UNCHANGED <<call, prev>>

GetAttributes ==
    /\ pc = "call"
    /\ call.fn = "get_attributes"
    /\ ret' = get_attributes(call.srv, call.site, call.version, call.processing_level,
                             call.variables)
    /\ pc' = "done"
    /\ UNCHANGED <<call, prev>>

ExportAsExcel ==
    /\ pc = "call"
    /\ call.fn = "export_as_excel"
    /\ ret' = export_as_excel(call.srv, call.host, call.filename, call.site,
                              call.version, call.processing_level)
    /\ pc' = "done"
    /\ UNCHANGED <<call, prev>>

ExportOnefluxCsv ==
    /\ pc = "call"
    /\ call.fn = "export_oneflux_csv"
    /\ ret' = export_oneflux_csv(call.srv, call.host, call.outdir, call.site,
                                 call.version, call.processing_level)
    /\ pc' = "done"
    /\ UNCHANGED <<call, prev>>

NextLatest ==
    \/ GetGlobalAttributes
    \/ GetVariables
    \/ GetAttributes
    \/ GetSubset
    \/ ExportAsExcel
    \/ ExportOnefluxCsv

SpecLatest == InitLatest /\ [][NextLatest]_vars

LatestDone == pc = "done" /\ "version" \in DOMAIN call /\ "io" \in DOMAIN ret

\* The versions whose dataset catalog a finished call fetched.
FetchedVersions ==
    {v \in {V2, V10, VersionV} :
        Get(DatasetCatalogUrl(call.site, v, call.processing_level)) \in Range(ret.io)}

\* The versions the server lists for the site of the call.
ListedVersions ==
    LET resp == Fetch(call.srv, VersionCatalogUrl(call.site))
    IN  IF resp.status = 200 /\ resp.wellformed
        THEN {resp.doc[i].name : i \in 1..Len(resp.doc)}
        ELSE {}

\* C13: a call without a version first fetches the version catalog of the
\* site and then works on the listed version that is greatest in text order
\* (2024_v2 over 2024_v10), and it succeeds only having fetched that version;
\* a call with a version never fetches the version catalog and works on the
\* given version only.
C13_LatestVersion ==
    LatestDone =>
        IF call.version = None
        THEN /\ Len(ret.io) > 0 /\ ret.io[1] = Get(VersionCatalogUrl(call.site))
             /\ \A m \in FetchedVersions :
                    /\ m \in ListedVersions
                    /\ \A x \in ListedVersions : x = m \/ StrLess(x, m)
             /\ ret.ok => FetchedVersions # {}
        ELSE /\ Get(VersionCatalogUrl(call.site)) \notin Range(ret.io)
             /\ FetchedVersions \subseteq {call.version[1]}
             /\ ret.ok => FetchedVersions = {call.version[1]}

\* C13 witness: the OneFlux export without a version, against a server that
\* lists 2024_v10 before 2024_v2, succeeds on the file of 2024_v2.
C13_Witness ==
    /\ LatestDone
    /\ call.fn = "export_oneflux_csv"
    /\ call.version = None
    /\ ListedVersions = {V2, V10}
    /\ ret.ok
    /\ Open(VersionFileUrl(V2)) \in Range(ret.io)
    /\ Open(VersionFileUrl(V10)) \notin Range(ret.io)

(***************************************************************************)
(* SpecSites: one call of get_datasets or get_subsets with a list of sites *)
(* against a server that holds the files of some of them.                  *)
(***************************************************************************)

\* The most sites a call lists.
MaxSites == 3

SiteC == <<"C">>

SiteFileUrl(site) ==
    DatasetUrl(DatasetCatalogUrl(site, VersionV, L3),
               Element(xmlns, "dataset", FileName(<<site, L3>>, NcExt), <<>>))

\* A server that holds the L3 file of version v of every site in good; the
\* file of a site carries the name of the site.
SitesServer(good) ==
    Server([u \in {DatasetCatalogUrl(site, VersionV, L3) : site \in good} |->
               LET site == CHOOSE x \in good : DatasetCatalogUrl(x, VersionV, L3) = u
               IN  Response(200, TRUE,
                            <<Element(xmlns, "dataset", FileName(<<site, L3>>, NcExt), <<>>)>>)],
           [u \in {SiteFileUrl(site) : site \in good} |->
               LET site == CHOOSE x \in good : SiteFileUrl(x) = u
               IN  FluxFile(site, TwoTimes, <<Num(FLUX_MISSING_VALUE), Num(5)>>,
                            <<Num(0), Num(0)>>, TRUE, u)])

SiteLists == SeqsUpTo({SiteA, SiteB, SiteC}, MaxSites)

IsDatasetsCall(c) ==
    \E good \in SUBSET {SiteA, SiteB, SiteC}, sites \in SiteLists, nan \in BOOLEAN :
        c = [fn |-> "get_datasets", srv |-> SitesServer(good), sites |-> sites,
             version |-> VersionV, processing_level |-> L3, missing_as_nan |-> nan]

IsSubsetsCall(c) ==
    \E good \in SUBSET {SiteA, SiteB, SiteC}, sites \in SiteLists, vs \in {<<>>, <<AH>>} :
        c = [fn |-> "get_subsets", srv |-> SitesServer(good), sites |-> sites,
             version |-> Some(VersionV), processing_level |-> L3, variables |-> vs,
             start |-> NoBound, end |-> NoBound, keep_attrs |-> TRUE,
             keep_qcflags |-> TRUE, missing_as_nan |-> FALSE]

InitSites ==
    /\ pc = "call"
    /\ IsDatasetsCall(call) \/ IsSubsetsCall(call)
    /\ ret = Ok(<<>>)
    /\ prev = NoCall

GetDatasets ==
    /\ pc = "call"
    /\ call.fn = "get_datasets"
    /\ ret' = get_datasets(call.srv, call.sites, call.version, call.processing_level,
                           call.missing_as_nan)
    /\ pc' = "done"
    /\ UNCHANGED <<call, prev>>

GetSubsets ==
    /\ pc = "call"
    /\ call.fn = "get_subsets"
    /\ ret' = get_subsets(call, call.sites)
    /\ pc' = "done"
    /\ UNCHANGED <<call, prev>>

NextSites == GetDatasets \/ GetSubsets

SpecSites == InitSites /\ [][NextSites]_vars

SitesDone == pc = "done" /\ "sites" \in DOMAIN call

\* The single-site result for the i-th site of the call.
SingleSite(i) ==
    IF call.fn = "get_datasets"
    THEN get_dataset(call.srv, call.sites[i], call.version, call.processing_level,
                     call.missing_as_nan)
    ELSE get_subset(call.srv, call.sites[i], call.version, call.processing_level,
                    call.variables, call.start, call.end, call.keep_attrs,
                    call.keep_qcflags, call.missing_as_nan)

\* The I/O of the single-site operations of the first n sites, in order.
RECURSIVE SingleSiteIo(_)
SingleSiteIo(n) == IF n = 0 THEN <<>> ELSE SingleSiteIo(n - 1) \o SingleSite(n).io

FailingSites == {i \in 1..Len(call.sites) : ~SingleSite(i).ok}

\* C14: the sites are processed in list order.  If the operation fails for
\* some site the call raises the error of the first such site in the list,
\* has performed the I/O of the sites up to that one and of no later site,
\* and returns no mapping; otherwise the result maps exactly the listed site
\* names, each to its single-site result.
C14_FanOut ==
    SitesDone =>
        IF FailingSites # {}
        THEN /\ ~ret.ok
             /\ ret.exc = SingleSite(Least(FailingSites)).exc
             /\ ret.val = SingleSite(Least(FailingSites)).val
             /\ ret.io = SingleSiteIo(Least(FailingSites))
        ELSE /\ ret.ok
             /\ DOMAIN ret.val = Range(call.sites)
             /\ \A i \in 1..Len(call.sites) : ret.val[call.sites[i]] = SingleSite(i).val
             /\ ret.io = SingleSiteIo(Len(call.sites))

\* C14 witness: get_datasets for A, C, B against a server without C fails
\* with the error of C, having fetched A and C and not B.
C14_Witness ==
    /\ SitesDone
    /\ call.fn = "get_datasets"
    /\ call.sites = <<SiteA, SiteC, SiteB>>
    /\ SiteFileUrl(SiteB) \in DOMAIN call.srv.files
    /\ ~ret.ok
    /\ ret.val = SingleSite(2).val
    /\ Open(SiteFileUrl(SiteA)) \in Range(ret.io)
    /\ Get(DatasetCatalogUrl(SiteC, VersionV, L3)) \in Range(ret.io)
    /\ \A k \in 1..Len(ret.io) : ret.io[k].url # DatasetCatalogUrl(SiteB, VersionV, L3)

(***************************************************************************)
(* SpecExport: one call of export_as_excel, of export_oneflux_csv or of     *)
(* write_csv_oneflux.                                                      *)
(***************************************************************************)

\* The most calendar years the time axis of an exported file spans.
MaxSpan == 3

\* The attributes of a file without one of them.
WithoutAttr(attrs, k) == [x \in DOMAIN attrs \ {k} |-> attrs[x]]

ExportAttrVariants ==
    {ExportAttrs(step) : step \in {Step30, Step60, Step15, <<"x">>}}
    \cup {WithoutAttr(ExportAttrs(Step30), k) :
            k \in {"time_step", "time_zone", "tower_height", "latitude", "fluxnet_id"}}
    \cup {[ExportAttrs(Step30) EXCEPT !.time_zone = <<"Mars/Olympus">>]}

\* Time axes around the turn of a year: a record on Jan 1 00:00, records on
\* both sides of it, axes that span up to MaxSpan years, an axis that runs
\* backwards and the empty axis.
ExportTimeAxes ==
    {<<Jan1(EpochYear)>>, <<Jan1(EpochYear) + HalfHour>>,
     <<Jan1(EpochYear) - HalfHour, Jan1(EpochYear)>>,
     <<Jan1(EpochYear), Jan1(EpochYear) + HalfHour>>,
     <<Jan1(EpochYear + 1) + HalfHour, Jan1(EpochYear) + HalfHour>>, <<>>}
    \cup {<<Jan1(EpochYear - 1) + HalfHour, Jan1(EpochYear - 1 + k) + HalfHour>> :
            k \in 0..(MaxSpan - 1)}

ExportFiles ==
    {ExportFile(attrs, times, FileAUrl) : attrs \in ExportAttrVariants, times \in ExportTimeAxes}

Hosts == {Host(mkdir, write, FALSE) : mkdir \in BOOLEAN, write \in BOOLEAN}

IsExcelCall(c) ==
    \/ \E file \in ExportFiles, write \in BOOLEAN, name \in {XlsxName, CsvName} :
          c = ExcelCall(FileServer(file), Host(TRUE, write, FALSE), name, Some(VersionV))
    \/ \E srv \in LatestServers, version \in {None, Some(VersionV)}, name \in {XlsxName, CsvName} :
          c = ExcelCall(srv, GoodHost, name, version)

IsOnefluxCall(c) ==
    \/ \E file \in ExportFiles, host \in Hosts :
          c = OnefluxCall(FileServer(file), host, OutDir, Some(VersionV), L3)
    \/ \E srv \in LatestServers, version \in {None, Some(VersionV)}, outdir \in {OutDir, <<>>}, level \in {L3, L6} :
          c = OnefluxCall(srv, GoodHost, outdir, version, level)

IsWriteCsvCall(c) ==
    \E file \in ExportFiles, write \in BOOLEAN, summer \in BOOLEAN :
        c = [fn |-> "write_csv_oneflux", ds |-> file, outdir |-> OutDir,
             host |-> Host(TRUE, write, summer)]

InitExport ==
    /\ pc = "call"
    /\ IsExcelCall(call) \/ IsOnefluxCall(call) \/ IsWriteCsvCall(call)
    /\ ret = Ok(<<>>)
    /\ prev = NoCall

WriteCsvOneflux ==
    /\ pc = "call"
    /\ call.fn = "write_csv_oneflux"
    /\ ret' = write_csv_oneflux(call.ds, call.outdir, call.host)
    /\ pc' = "done"
    /\ UNCHANGED <<call, prev>>

NextExport == ExportAsExcel \/ ExportOnefluxCsv \/ WriteCsvOneflux

SpecExport == InitExport /\ [][NextExport]_vars

ExportDone == pc = "done" /\ call.fn \in {"export_as_excel", "export_oneflux_csv"}

\* C15: every failure of export_as_excel and of export_oneflux_csv is an
\* Exception whose message starts with 'Export dataset as Excel Workbook
\* failed: ' or 'Export dataset in oneflux format failed: ' and goes on with
\* the originating message.
C15_ExportFailuresWrapped ==
    (ExportDone /\ ~ret.ok) =>
        /\ ret.exc = "Exception"
        /\ Len(ret.val) > 1
        /\ ret.val[1] = IF call.fn = "export_as_excel"
                        THEN "Export dataset as Excel Workbook failed: "
                        ELSE "Export dataset in oneflux format failed: "

WriteCsvDone == pc = "done" /\ call.fn = "write_csv_oneflux"

\* The step of the dataset of the call, as a duration.
CallStep == Minutes(ParseNat(call.ds.attrs.time_step, Len(call.ds.attrs.time_step)))

\* The first and the last calendar year of the files: the year of the first
\* and of the last record, each taken one step earlier.
FirstYear == YearOf(TimeData(call.ds)[1] - CallStep)

LastYear == YearOf(TimeData(call.ds)[Len(TimeData(call.ds))] - CallStep)

\* C16: a successful write_csv_oneflux returns one path for every calendar
\* year from the year of (first timestamp - one step) through the year of
\* (last timestamp - one step), in increasing year order, and leaves exactly
\* those files; so a record stamped Jan 1 00:00 of year Y goes to the file of
\* year Y - 1, and a dataset within one year yields one file.
C16_FilePerYear ==
    (WriteCsvDone /\ ret.r.ok) =>
        /\ Len(ret.r.val) = (IF LastYear < FirstYear THEN 0 ELSE LastYear - FirstYear + 1)
        /\ \A k \in 1..Len(ret.r.val) :
               ret.r.val[k] = CsvFilePath(call.ds, FirstYear + k - 1, call.outdir)
        /\ DOMAIN ret.files = Range(ret.r.val)
        /\ Cardinality(DOMAIN ret.files) = Len(ret.r.val)

\* C16 witness: a dataset whose records are stamped Dec 31 23:30 and Jan 1
\* 00:00 of the epoch year, at a 30 minute step, yields the one file of the
\* year before.
C16_Witness ==
    /\ WriteCsvDone
    /\ ret.r.ok
    /\ TimeData(call.ds) = <<Jan1(EpochYear) - HalfHour, Jan1(EpochYear)>>
    /\ call.ds.attrs.time_step = Step30
    /\ ret.r.val = <<CsvFilePath(call.ds, EpochYear - 1, call.outdir)>>
    /\ DOMAIN ret.files = {CsvFilePath(call.ds, EpochYear - 1, call.outdir)}

(***************************************************************************)
(* SpecCsv: write_csv_oneflux_year step by step.  The grid is built by the *)
(* perdelta loop, one instant per step; the file is opened and its rows    *)
(* before the data are written; the data rows are written one per step;    *)
(* the file is closed.  While the grid is built ret holds the loop (curr,   *)
(* the instants yielded so far) and prev the instant last yielded; while   *)
(* the rows are written ret holds the open file and prev the row last      *)
(* written.                                                                *)
(***************************************************************************)

Hour == 60 * Minute

YearCall(ds, year) ==
    [fn |-> "write_csv_oneflux_year", ds |-> ds, year |-> year, outdir |-> OutDir,
     host |-> GoodHost]

\* The years the grid is built for: one that is no leap year, one that is.
GridYears == {EpochYear - 1, EpochYear}

\* Strictly increasing time axes around the grid of the year before the
\* epoch year at a step of 60 minutes: records on the first and on the last
\* instant of the grid, within the year, off the grid by half an hour, on
\* Jan 1 00:00 of the year itself and in the year after.
RowTimeAxes ==
    {<<Jan1(EpochYear - 1) + Hour, Jan1(EpochYear - 1) + 2 * Hour>>,
     <<Jan1(EpochYear - 1), Jan1(EpochYear - 1) + HalfHour, Jan1(EpochYear)>>,
     <<Jan1(EpochYear - 1) + HalfHour, Jan1(EpochYear - 1) + 100 * Day,
       Jan1(EpochYear) + Hour>>,
     <<>>}

\* Calls that vary the year and the step.
IsGridCall(c) ==
    \E year \in GridYears, step \in {Step30, Step60} :
        c = YearCall(ExportFile(ExportAttrs(step), TwoTimes, FileAUrl), year)

\* Calls that vary the records of the dataset.
IsRowsCall(c) ==
    \E times \in RowTimeAxes :
        c = YearCall(ExportFile(ExportAttrs(Step60), times, FileAUrl), EpochYear - 1)

\* The file of the exports with two more OneFlux variables: record i holds
\* Ta = 20 + i and CO2 = 390 + i.
WideFile(attrs, times, source) ==
    LET file == ExportFile(attrs, times, source)
    IN  Dataset(attrs, file.coords,
                file.variables
                @@ (<<"Ta">> :> Variable(AllDims, [i \in 1..Len(times) |-> Num(20 + i)],
                                         Attrs("Air temperature", "degC"), NoAttrs))
                @@ (<<"CO2">> :> Variable(AllDims, [i \in 1..Len(times) |-> Num(390 + i)],
                                          Attrs("CO2 concentration", "umol/mol"), NoAttrs)),
                source)

WideTimes == <<Jan1(EpochYear - 1), Jan1(EpochYear - 1) + 3 * Hour, Jan1(EpochYear)>>

\* A call on a dataset with four OneFlux variables.
IsWideCall(c) ==
    c = YearCall(WideFile(ExportAttrs(Step60), WideTimes, FileAUrl), EpochYear - 1)

\* Calls that fail before or after the grid is built.
IsFailingYearCall(c) ==
    \E attrs \in ExportAttrVariants \ {ExportAttrs(Step30), ExportAttrs(Step60)} :
        c = YearCall(ExportFile(attrs, TwoTimes, FileAUrl), EpochYear - 1)

InitCsv ==
    /\ pc = "call"
    /\ IsGridCall(call) \/ IsRowsCall(call) \/ IsWideCall(call) \/ IsFailingYearCall(call)
    /\ ret = Ok(<<>>)
    /\ prev = NoCall

\* ts_delta, start and end: the loop of perdelta begins, or the step fails.
StartYear ==
    /\ pc = "call"
    /\ call.fn = "write_csv_oneflux_year"
    /\ IF time_step_of(call.ds).ok
       THEN /\ pc' = "perdelta"
            /\ ret' = [curr |-> GridStart(call.year, Minutes(time_step_of(call.ds).val)),
                       ts_delta |-> Minutes(time_step_of(call.ds).val),
                       step |-> time_step_of(call.ds).val, nrecs |-> 0]
       ELSE /\ pc' = "done"
            /\ ret' = [r |-> time_step_of(call.ds), files |-> NoFiles]
    /\ UNCHANGED <<call, prev>>

\* yield curr; curr += delta
PerdeltaYield ==
    /\ pc = "perdelta"
    /\ perdelta_continues(ret.curr, GridEnd(call.year))
    /\ prev' = ret.curr
    /\ ret' = [ret EXCEPT !.curr = ret.curr + ret.ts_delta, !.nrecs = ret.nrecs + 1]
    /\ UNCHANGED <<pc, call>>

\* The file a successful open leaves to the row loop.
OpenedFile(opened, nrecs) ==
    [path |-> opened.r.val, rows |-> opened.files[opened.r.val].rows,
     table |-> opened.files[opened.r.val].table, nrecs |-> nrecs, n |-> 0]

\* The grid is complete: the matching, the data arrays, the attributes, the
\* open and the rows up to the header, or the first failure among them.
OpenFileWith(opened) ==
    IF opened.r.ok
    THEN /\ pc' = "rows"
         /\ ret' = OpenedFile(opened, ret.nrecs)
    ELSE /\ pc' = "done"
         /\ ret' = opened

OpenFile ==
    /\ pc = "perdelta"
    /\ ~perdelta_continues(ret.curr, GridEnd(call.year))
    /\ OpenFileWith(csv_year_variables(call.ds, OnefluxVariablesFrom(call.ds, 1),
                                       call.year, ret.step, call.outdir, call.host))
    /\ prev' = NoCall
    /\ UNCHANGED call

\* for n in range(nrecs): writer.writerow(data_list)
WriteRow ==
    /\ pc = "rows"
    /\ ret.n < ret.nrecs
    /\ prev' = DataRow(ret.table, ret.n)
    /\ ret' = [ret EXCEPT !.n = ret.n + 1]
    /\ UNCHANGED <<pc, call>>

\* The with block ends: the file is closed and its path returned.
CloseFile ==
    /\ pc = "rows"
    /\ ret.n = ret.nrecs
    /\ pc' = "done"
    /\ ret' = [r |-> Ok(ret.path),
               files |-> ret.path :> CsvFile(ret.rows, ret.n, ret.table)]
    /\ UNCHANGED <<call, prev>>

NextCsv == StartYear \/ PerdeltaYield \/ OpenFile \/ WriteRow \/ CloseFile

SpecCsv == InitCsv /\ [][NextCsv]_vars

\* The rows of a year: 24 hours of 60 minutes a day, at one row a step.
ExpectedRows(year, step) == ((IF IsLeap(year) THEN 366 ELSE 365) * 24 * 60) \div step

NominalStep ==
    /\ pc # "call"
    /\ "time_step" \in DOMAIN call.ds.attrs
    /\ call.ds.attrs.time_step \in {Step30, Step60}

\* C17: at a step of 30 or 60 minutes the k-th instant of the grid is Jan 1
\* 00:00 of the year plus k steps, so the grid starts one step after Jan 1
\* 00:00 and grows by one step; the loop ends having yielded Jan 1 00:00 of
\* the next year, after 17520 instants (17568 in a leap year) at 30 minutes
\* and 8760 (8784) at 60; every data row ends on the grid instant of its
\* index and starts one step earlier, and the closed file has as many data
\* rows as the grid has instants whatever records the dataset holds.
C17_Grid ==
    NominalStep =>
        /\ (pc = "perdelta" /\ ret.nrecs > 0) =>
               /\ prev = Jan1(call.year) + ret.nrecs * CallStep
               /\ prev <= Jan1(call.year + 1)
        /\ (pc = "perdelta" /\ ret.curr > Jan1(call.year + 1)) =>
               /\ prev = Jan1(call.year + 1)
               /\ ret.nrecs = ExpectedRows(call.year, CallStep \div Minute)
        /\ (pc = "rows" /\ ret.n > 0) =>
               /\ prev[2] = FormatStamp(Jan1(call.year) + ret.n * CallStep)
               /\ prev[1] = FormatStamp(Jan1(call.year) + (ret.n - 1) * CallStep)
        /\ (pc = "done" /\ ret.r.ok) =>
               /\ ret.files[ret.r.val].nrecs = ExpectedRows(call.year, CallStep \div Minute)
               /\ ret.files[ret.r.val].nrecs \in {17520, 17568, 8760, 8784}

\* C17 witness: the file of the leap year at 30 minutes is closed with 17568
\* data rows, the last one ending on Jan 1 00:00 of the next year.
C17_Witness ==
    /\ pc = "done"
    /\ call.fn = "write_csv_oneflux_year"
    /\ call.year = EpochYear
    /\ call.ds.attrs.time_step = Step30
    /\ ret.r.ok
    /\ ret.files[ret.r.val].nrecs = 17568
    /\ prev[2] = FormatStamp(Jan1(EpochYear + 1))
    /\ prev[1] = FormatStamp(Jan1(EpochYear + 1) - HalfHour)

StrictlyIncreasing(times) == \A i \in 1..(Len(times) - 1) : times[i] < times[i + 1]

\* The records of the dataset of the call stamped t.
RecordsAt(t) == {i \in 1..Len(TimeData(call.ds)) : TimeData(call.ds)[i] = t}

\* The value of a variable in record i as the file carries it, in tenths:
\* VPD is divided by 10.
CarriedValue(var, i) ==
    IF var = VPD THEN call.ds.variables[var].data[i][1]
    ELSE Tenths(call.ds.variables[var].data[i][1])

RowsOpened ==
    /\ pc = "rows"
    /\ ret.n = 0
    /\ StrictlyIncreasing(TimeData(call.ds))

SentinelCell == <<"-", "9", "9", "9", "9", ".", "0", "0", "0">>

\* The column of VPD in the table of the open file, 0 if it has none.
VpdColumn ==
    IF \E v \in 1..Len(ret.table.variables) : ret.table.variables[v].var = VPD
    THEN CHOOSE v \in 1..Len(ret.table.variables) : ret.table.variables[v].var = VPD
    ELSE 0

C18_SentinelWitness ==
    /\ pc = "rows"
    /\ TimeData(call.ds) = <<Jan1(EpochYear - 1), Jan1(EpochYear - 1) + HalfHour, Jan1(EpochYear)>>
    /\ ret.n = 1
    /\ prev = <<FormatStamp(Jan1(EpochYear - 1)), FormatStamp(Jan1(EpochYear - 1) + Hour),
                <<"-", "9", "9", "9", "9">>, <<"-", "9", "9", "9", "9", ".", "0", "0", "0">>>>

(***************************************************************************)
(* SpecPool: get_sites.  The site names are read from the site catalog;    *)
(* pool.map hands the lookups in order to idle workers, the workers finish *)
(* in any order, and map returns when every lookup has finished.  While    *)
(* the pool runs ret holds the pool; prev keeps the pool as map left it.   *)
(***************************************************************************)

\* The most site names the site catalog lists: one more than the workers.
MaxPoolSites == 7

PoolSiteName(i) == <<"S", DigitChars[i + 1]>>

\* What the server holds of a site: an L6 file, an L3 file only, an L6 file
\* without data variables, a version without any file, a version catalog
\* that lists nothing, no version catalog, an L6 and an L3 file, an L6 file
\* without data variables and an L3 file.
SiteKinds ==
    {"full", "fallback", "hollow", "nodata", "unlisted", "noversion", "both", "hollowthen"}

LevelFileUrl(site, level) ==
    DatasetUrl(DatasetCatalogUrl(site, VersionV, level),
               Element(xmlns, "dataset", FileName(<<site, level>>, NcExt), <<>>))

LevelCatalog(site, level) ==
    DatasetCatalogUrl(site, VersionV, level)
        :> Response(200, TRUE,
                    <<Element(xmlns, "dataset", FileName(<<site, level>>, NcExt), <<>>)>>)

\* The file of a site: its vegetation names the site.
LocationFile(site, source) ==
    LET file == FluxFile(site, TwoTimes, <<Num(5), Num(5)>>, <<Num(0), Num(0)>>, TRUE, source)
    IN  Dataset([vegetation |-> site \o <<" woodland">>, canopy_height |-> <<"16m">>,
                 time_coverage_start |-> <<"2000-01-01 00:30:00">>],
                file.coords, file.variables, source)

\* The same file without its data variables.
HollowFile(site, source) ==
    LET file == LocationFile(site, source)
    IN  Dataset(file.attrs, file.coords,
                [n \in file.coords |-> file.variables[n]], source)

\* The L3 file of a site that holds a file at L6 too: its canopy height
\* tells it from the L6 file.
LowFile(site, source) ==
    LET file == LocationFile(site, source)
    IN  Dataset([file.attrs EXCEPT !.canopy_height = <<"3m">>], file.coords,
                file.variables, source)

SiteCatalogsOf(site, kind) ==
    IF kind = "noversion" THEN <<>>
    ELSE IF kind = "unlisted" THEN VersionCatalogUrl(site) :> Response(200, TRUE, <<>>)
    ELSE (VersionCatalogUrl(site)
             :> Response(200, TRUE,
                         <<Element(xmlns, "catalogRef", VersionV, XmlHref(VersionV))>>))
         @@ (IF kind \in {"full", "hollow"} THEN LevelCatalog(site, L6)
             ELSE IF kind = "fallback" THEN LevelCatalog(site, L3)
             ELSE IF kind \in {"both", "hollowthen"}
             THEN LevelCatalog(site, L6) @@ LevelCatalog(site, L3)
             ELSE <<>>)

SiteFilesOf(site, kind) ==
    IF kind = "full" THEN LevelFileUrl(site, L6) :> LocationFile(site, LevelFileUrl(site, L6))
    ELSE IF kind = "hollow"
    THEN LevelFileUrl(site, L6) :> HollowFile(site, LevelFileUrl(site, L6))
    ELSE IF kind = "fallback"
    THEN LevelFileUrl(site, L3) :> LocationFile(site, LevelFileUrl(site, L3))
    ELSE IF kind = "both"
    THEN (LevelFileUrl(site, L6) :> LocationFile(site, LevelFileUrl(site, L6)))
         @@ (LevelFileUrl(site, L3) :> LowFile(site, LevelFileUrl(site, L3)))
    ELSE IF kind = "hollowthen"
    THEN (LevelFileUrl(site, L6) :> HollowFile(site, LevelFileUrl(site, L6)))
         @@ (LevelFileUrl(site, L3) :> LowFile(site, LevelFileUrl(site, L3)))
    ELSE <<>>

RECURSIVE PoolCatalogs(_, _, _)
PoolCatalogs(names, kinds, i) ==
    IF i > Len(names) THEN <<>>
    ELSE SiteCatalogsOf(names[i], kinds[names[i]]) @@ PoolCatalogs(names, kinds, i + 1)

RECURSIVE PoolFiles(_, _, _)
PoolFiles(names, kinds, i) ==
    IF i > Len(names) THEN <<>>
    ELSE SiteFilesOf(names[i], kinds[names[i]]) @@ PoolFiles(names, kinds, i + 1)

\* A server whose site catalog lists names in document order.
PoolServer(names, kinds) ==
    Server((SiteCatalogUrl
               :> Response(200, TRUE,
                           [i \in 1..Len(names) |->
                               Element(xmlns, "catalogRef", names[i], XmlHref(names[i]))]))
           @@ PoolCatalogs(names, kinds, 1),
           PoolFiles(names, kinds, 1))

\* More sites than workers: every one with an L6 file, or all but the second
\* and the fifth, whose lookups fail each in its way.
IsCrowdCall(c) ==
    \E broken \in {{}, {2, 5}} :
        c = [fn |-> "get_sites",
             srv |-> PoolServer([i \in 1..MaxPoolSites |-> PoolSiteName(i)],
                                [n \in {PoolSiteName(i) : i \in 1..MaxPoolSites} |->
                                    IF n = PoolSiteName(2) /\ 2 \in broken THEN "noversion"
                                    ELSE IF n = PoolSiteName(5) /\ 5 \in broken THEN "unlisted"
                                    ELSE "full"])]

\* Up to two names, repeats included, of sites of every kind.
IsKindsCall(c) ==
    \E names \in SeqsUpTo({PoolSiteName(1), PoolSiteName(2)}, 2),
       kinds \in [{PoolSiteName(1), PoolSiteName(2)} -> SiteKinds] :
        c = [fn |-> "get_sites", srv |-> PoolServer(names, kinds)]

\* A site catalog that cannot be read.
IsBrokenCatalogCall(c) ==
    \E resp \in {Response(503, TRUE, <<>>), Response(200, FALSE, <<>>)} :
        c = [fn |-> "get_sites", srv |-> Server(SiteCatalogUrl :> resp, <<>>)]

InitPool ==
    /\ pc = "call"
    /\ IsCrowdCall(call) \/ IsKindsCall(call) \/ IsBrokenCatalogCall(call)
    /\ ret = Ok(<<>>)
    /\ prev = NoCall

\* The site names are read; the pool is created.
StartPoolWith(names) ==
    IF names.ok
    THEN /\ pc' = "pool"
         /\ ret' = Pool(names.val, names.io)
    ELSE /\ pc' = "done"
         /\ ret' = names

GetSites ==
    /\ pc = "call"
    /\ call.fn = "get_sites"
    /\ StartPoolWith(site_names(call.srv))
    /\ UNCHANGED <<call, prev>>

\* pool.map hands the next task to an idle worker.
Dispatch ==
    /\ pc = "pool"
    /\ Cardinality(ret.running) < processes
    /\ ret.next <= Len(ret.sites)
    /\ ret' = [ret EXCEPT !.running = ret.running \cup {ret.next}, !.next = ret.next + 1]
    /\ UNCHANGED <<pc, call, prev>>

\* The pool after the result of task i arrived.
Arrived(pool, i, result) ==
    [pool EXCEPT !.running = pool.running \ {i},
                 !.locations = pool_store(pool.locations, i, result),
                 !.lookups[i] = pool.lookups[i] + 1,
                 !.error = IF ~result.ok /\ pool.error = None THEN Some(result)
                           ELSE pool.error]

\* The worker that runs task i finishes its lookup and the result arrives.
Complete(i) ==
    /\ pc = "pool"
    /\ i \in ret.running
    /\ ret' = Arrived(ret, i, _get_location(call.srv, ret.sites[i]))
    /\ UNCHANGED <<pc, call, prev>>

\* Every task has been handed out and has finished: map returns or raises.
MapReturn ==
    /\ pc = "pool"
    /\ ret.next > Len(ret.sites)
    /\ ret.running = {}
    /\ pc' = "done"
    /\ prev' = ret
    /\ ret' = map_result(ret)
    /\ UNCHANGED call

NextPool ==
    \/ GetSites
    \/ Dispatch
    \/ \E i \in 1..MaxPoolSites : Complete(i)
    \/ MapReturn

SpecPool == InitPool /\ [][NextPool]_vars

PoolDone == pc = "done" /\ call.fn = "get_sites"

\* The site names the site catalog of the call lists.
ListedSites ==
    LET doc == Fetch(call.srv, SiteCatalogUrl).doc
    IN  {doc[i].name : i \in {j \in DOMAIN doc : Matches(doc[j], "catalogRef")}}

\* The tasks of a pool that have been handed out.
HandedOut(pool) == 1..(pool.next - 1)

\* While the pool runs: at most processes tasks run at once, a task that
\* runs has been handed out and has no result yet, and a task has a result
\* exactly when it was run once; no task is run twice.
PoolSound(pool) ==
    /\ Cardinality(pool.running) <= processes
    /\ pool.running \subseteq HandedOut(pool)
    /\ DOMAIN pool.locations = HandedOut(pool) \ pool.running
    /\ \A i \in 1..Len(pool.sites) :
        /\ pool.lookups[i] = (IF i \in DOMAIN pool.locations THEN 1 ELSE 0)
        /\ i \in DOMAIN pool.locations
            => pool.locations[i] = _get_location(call.srv, pool.sites[i])

\* C19: get_sites runs one location lookup for every site name of the site
\* catalog on a pool of 6 workers; in whatever order the lookups are taken
\* and finish, no site is looked up twice or left out, and the frame of a
\* call that succeeds has exactly one row for every site name, each row
\* with the name and the values of the site it was computed for.
C19_OneRowPerSite ==
    /\ pc = "pool" => PoolSound(ret)
    /\ (PoolDone /\ DOMAIN prev # {}) =>
        /\ PoolSound(prev)
        /\ \A i \in 1..Len(prev.sites) : prev.lookups[i] = 1
        /\ {prev.sites[i] : i \in 1..Len(prev.sites)} = ListedSites
        /\ Len(prev.sites) = Cardinality(ListedSites)
    /\ (PoolDone /\ ret.ok) =>
        /\ Len(ret.val) = Cardinality(ListedSites)
        /\ {ret.val[i].site : i \in 1..Len(ret.val)} = ListedSites
        /\ \A i \in 1..Len(ret.val) :
            /\ ret.val[i].site = prev.sites[i]
            /\ ret.val[i].vegetation = ret.val[i].site \o <<" woodland">>

\* A frame of more rows than the pool has workers, a row per site.
C19_Witness ==
    /\ PoolDone
    /\ ret.ok
    /\ Len(ret.val) = MaxPoolSites
    /\ Len(ret.val) > processes
    /\ \A i \in 1..MaxPoolSites : ret.val[i].site = PoolSiteName(i)

\* The first thing the lookup of a site does fails: its versions cannot be
\* listed, or the L6 dataset of its latest version cannot be opened.
first_failure_of(srv, site, ver) ==
    IF ~ver.ok THEN Some(ver)
    ELSE IF ~get_dataset(srv, site, ver.val, L6, FALSE).ok
    THEN Some(get_dataset(srv, site, ver.val, L6, FALSE))
    ELSE None

FirstFailure(site) == first_failure_of(call.srv, site, resolve_version(call.srv, site, None))

\* C20: get_sites swallows no failure of its reads: when the site catalog
\* or the lookup of a listed site fails, the call raises, and every error
\* the call raises is one Exception whose message starts with 'Error: fail
\* to get sites: ' and goes on with the originating message.
C20_NoFailureSwallowed ==
    PoolDone =>
        /\ (\E site \in ListedSites : FirstFailure(site) # None) => ~ret.ok
        /\ ~ret.ok =>
            /\ ret.exc = "Exception"
            /\ StartsWith(ret.val, SitesErrorPrefix)

\* A list that holds no name twice.
NoRepeats(names) == \A i, j \in 1..Len(names) : names[i] = names[j] => i = j

\* The list of names the call selects its subset by.
CallSubsetNames == subset_names(OpenedForSubset.val, call.variables, call.keep_qcflags)

\* get_subset has acted with keep_qcflags on a request of names the opened
\* dataset holds.
FlagsRequested ==
    /\ SubsetDone
    /\ call.keep_qcflags
    /\ Len(call.variables) > 0
    /\ OpenedForSubset.ok
    /\ Range(call.variables) \subseteq DOMAIN OpenedForSubset.val.variables

\* The request names a flag the loop adds too: an existing '<v>_QCFlag'
\* together with its own v.
NamesOwnFlag ==
    \E v \in Range(call.variables) :
        /\ ~Contains(v, QCFlagSuffix)
        /\ QCFlagOf(v) \in DOMAIN OpenedForSubset.val.variables
        /\ QCFlagOf(v) \in Range(call.variables)

\* C21 as stated: with keep_qcflags the list of names the subset is
\* selected by holds each name at most once for every valid request.
C21_NoDuplicateNames == FlagsRequested => NoRepeats(CallSubsetNames)

\* C21: with keep_qcflags the list of names the subset is selected by is the
\* request followed by one '<v>_QCFlag' for every position of a requested v
\* whose flag exists; it holds a name twice exactly when the request names a
\* variable twice or names a variable together with its own existing flag.
\* The subset selected by the list holds each of its names once.
C21_FlagsAppended ==
    FlagsRequested =>
        /\ NoRepeats(CallSubsetNames) <=> (NoRepeats(call.variables) /\ ~NamesOwnFlag)
        /\ SubSeq(CallSubsetNames, 1, Len(call.variables)) = call.variables
        /\ ret.ok =>
            DOMAIN ret.val.variables \ ret.val.coords
                = Range(CallSubsetNames) \ OpenedForSubset.val.coords

\* ['AH', 'AH_QCFlag'] with keep_qcflags: the list is AH, AH_QCFlag,
\* AH_QCFlag and the subset holds AH and AH_QCFlag.
C21_Witness ==
    /\ FlagsRequested
    /\ call.variables = <<AH, QCFlagOf(AH)>>
    /\ CallSubsetNames = <<AH, QCFlagOf(AH), QCFlagOf(AH)>>
    /\ ret.ok
    /\ DOMAIN ret.val.variables \ ret.val.coords = {AH, QCFlagOf(AH)}

(***************************************************************************)
(* SpecMatch: one call of FindMatchingIndices on two arrays of timestamps, *)
(* sorted or not, with or without repeated values.                         *)
(***************************************************************************)

\* The most timestamps an array of the call holds.
MaxStamps == 3

\* The timestamps of the arrays: three instants a half hour apart.
MatchStamps == {HalfHour, 2 * HalfHour, 3 * HalfHour}

StampArrays == SeqsUpTo(MatchStamps, MaxStamps)

InitMatch ==
    /\ pc = "call"
    /\ \E a \in StampArrays, b \in StampArrays :
        call = [fn |-> "FindMatchingIndices", a |-> a, b |-> b]
    /\ ret = Ok(<<>>)
    /\ prev = NoCall

FindIndices ==
    /\ pc = "call"
    /\ call.fn = "FindMatchingIndices"
    /\ ret' = Ok(FindMatchingIndices(call.a, call.b))
    /\ pc' = "done"
    /\ UNCHANGED <<call, prev>>

NextMatch == FindIndices

SpecMatch == InitMatch /\ [][NextMatch]_vars

MatchDone == pc = "done" /\ call.fn = "FindMatchingIndices"

\* C22: for every pair of arrays a and b, FindMatchingIndices(a, b) returns
\* index arrays of equal length with a[inds_a[k]] = b[inds_b[k]] for every
\* k, and every timestamp of both arrays is covered.
C22_AlignedIndices ==
    MatchDone =>
        /\ Len(ret.val.inds_a) = Len(ret.val.inds_b)
        /\ \A k \in 1..Len(ret.val.inds_a) :
            call.a[ret.val.inds_a[k] + 1] = call.b[ret.val.inds_b[k] + 1]
        /\ Range(call.a) \cap Range(call.b)
            \subseteq {call.a[i + 1] : i \in Range(ret.val.inds_a)}

(***************************************************************************)
(* SpecYears: export_oneflux_csv step by step.  The level is checked, the  *)
(* output folder created, the version resolved, the dataset opened, the    *)
(* years computed and the yearly files written one per step.  ret holds    *)
(* the frame of the call: the folders created, the requests made and the   *)
(* files on disk so far; prev keeps the files on disk before the last      *)
(* step.                                                                   *)
(***************************************************************************)

\* Time axes over up to MaxSpan years: a record in each year, and axes that
\* repeat a record of the first, of the second or of the last year.
YearAxes ==
    {<<Jan1(EpochYear - 1) + HalfHour, Jan1(EpochYear) + HalfHour,
       Jan1(EpochYear + 1) + HalfHour>>,
     <<Jan1(EpochYear - 1) + HalfHour, Jan1(EpochYear) + HalfHour>>,
     <<Jan1(EpochYear - 1) + HalfHour, Jan1(EpochYear - 1) + HalfHour,
       Jan1(EpochYear) + HalfHour>>,
     <<Jan1(EpochYear - 1) + HalfHour, Jan1(EpochYear) + HalfHour,
       Jan1(EpochYear) + HalfHour, Jan1(EpochYear + 1) + HalfHour>>,
     <<Jan1(EpochYear - 1) + HalfHour, Jan1(EpochYear) + HalfHour,
       Jan1(EpochYear + 1) + HalfHour, Jan1(EpochYear + 1) + HalfHour>>,
     <<Jan1(EpochYear) + HalfHour>>, <<>>}

YearAttrs ==
    {ExportAttrs(Step30), ExportAttrs(Step60), ExportAttrs(Step15), ExportAttrs(<<"x">>),
     ExportAttrs(<<"0">>), ExportAttrs(<<"7">>),
     WithoutAttr(ExportAttrs(Step30), "latitude"),
     WithoutAttr(ExportAttrs(Step30), "time_zone")}

\* Calls that reach the years: they vary the file and the host.
IsYearsCall(c) ==
    \E attrs \in YearAttrs, times \in YearAxes, write \in BOOLEAN, summer \in BOOLEAN :
        c = OnefluxCall(FileServer(ExportFile(attrs, times, FileAUrl)),
                        Host(TRUE, write, summer), OutDir, Some(VersionV), L3)

\* Calls that vary the level, the folder and the version.
IsLevelsCall(c) ==
    \E level \in {L3, <<"L","4">>, <<"L","5">>, L6, <<"l","3">>}, mkdir \in BOOLEAN,
       outdir \in {OutDir, <<>>}, version \in {None, Some(VersionV)},
       srv \in {FileServer(ExportFile(ExportAttrs(Step30), TwoTimes, FileAUrl)),
                ListingServer(<<V2, V10>>), BrokenVersionsServer} :
        c = OnefluxCall(srv, Host(mkdir, TRUE, FALSE), outdir, version, level)

InitYears ==
    /\ pc = "call"
    /\ IsYearsCall(call) \/ IsLevelsCall(call)
    /\ ret = [dirs |-> {}, io |-> <<>>, files |-> NoFiles]
    /\ prev = NoFiles

\* except Exception as e: raise Exception(f"Export dataset in oneflux format
\* failed: {str(e)}"): the call ends with what it has done so far.
ExportFails(msg, io, files) ==
    /\ pc' = "done"
    /\ ret' = ExportRaise("Exception", OnefluxErrorPrefix \o msg, io, files)
                  @@ [dirs |-> ret.dirs]

\* if processing_level not in ["L3", "L4"]: raise
CheckLevel ==
    /\ pc = "call"
    /\ call.fn = "export_oneflux_csv"
    /\ IF call.processing_level \notin OnefluxLevels
       THEN ExportFails(LevelErrorMsg(call.processing_level), ret.io, ret.files)
       ELSE pc' = "makedirs" /\ ret' = ret
    /\ UNCHANGED <<call, prev>>

\* os.makedirs(outdir, exist_ok=True)
MakeDirs ==
    /\ pc = "makedirs"
    /\ IF call.outdir = <<>>
       THEN ExportFails(<<"[Errno 2] No such file or directory: ", "'", "'">>,
                        ret.io, ret.files)
       ELSE IF ~call.host.mkdir
       THEN ExportFails(<<"[Errno 13] Permission denied: ">> \o Quoted(call.outdir),
                        ret.io, ret.files)
       ELSE pc' = "version" /\ ret' = [ret EXCEPT !.dirs = ret.dirs \cup {call.outdir}]
    /\ UNCHANGED <<call, prev>>

VersionResolved(ver) ==
    IF ~ver.ok THEN ExportFails(ver.val, ret.io \o ver.io, ret.files)
    ELSE /\ pc' = "dataset"
         /\ ret' = [ret EXCEPT !.io = ret.io \o ver.io] @@ [version |-> ver.val]

\* if version is None: version = max(get_versions(site))
ResolveVersion ==
    /\ pc = "version"
    /\ VersionResolved(resolve_version(call.srv, call.site, call.version))
    /\ UNCHANGED <<call, prev>>

DatasetOpened(dataset) ==
    IF ~dataset.ok THEN ExportFails(dataset.val, ret.io \o dataset.io, ret.files)
    ELSE /\ pc' = "write"
         /\ ret' = [ret EXCEPT !.io = ret.io \o dataset.io] @@ [ds |-> dataset.val]

\* ds = get_dataset(site, version, processing_level)
OpenDataset ==
    /\ pc = "dataset"
    /\ DatasetOpened(get_dataset(call.srv, call.site, ret.version,
                                 call.processing_level, FALSE))
    /\ UNCHANGED <<call, prev>>

\* write_csv_oneflux up to its loop: ts_delta, start_year and end_year.
StartYears ==
    /\ pc = "write"
    /\ IF ~time_step_of(ret.ds).ok
       THEN ExportFails(time_step_of(ret.ds).val, ret.io, ret.files)
       ELSE IF TimeName \notin ret.ds.coords
       THEN ExportFails(KeyErrorMsg(TimeName), ret.io, ret.files)
       ELSE IF Len(TimeData(ret.ds)) = 0
       THEN ExportFails(<<"index 0 is out of bounds for axis 0 with size 0">>,
                        ret.io, ret.files)
       ELSE /\ pc' = "years"
            /\ ret' = ret @@ [year |-> YearOf(TimeData(ret.ds)[1]
                                              - Minutes(time_step_of(ret.ds).val)),
                              end_year |-> YearOf(TimeData(ret.ds)[Len(TimeData(ret.ds))]
                                                  - Minutes(time_step_of(ret.ds).val)),
                              output_files |-> <<>>]
    /\ UNCHANGED <<call, prev>>

\* A year that fails and a cleanup that removes what the call has written.
year_failed_Cleanup(files, one) == NoFiles

\* The files on disk when the file of a year fails: those of the years
\* before, and what the failing year left.
year_failed(files, one) == one.files @@ files

YearWritten(one) ==
    IF ~one.r.ok THEN ExportFails(one.r.val, ret.io, year_failed(ret.files, one))
    ELSE /\ pc' = "years"
         /\ ret' = [ret EXCEPT !.year = ret.year + 1,
                               !.output_files = Append(ret.output_files, one.r.val),
                               !.files = one.files @@ ret.files]

\* output_files.append(write_csv_oneflux_year(ds, year, outdir))
WriteYear ==
    /\ pc = "years"
    /\ ret.year <= ret.end_year
    /\ YearWritten(write_csv_oneflux_year(ret.ds, ret.year, call.outdir, call.host))
    /\ prev' = ret.files
    /\ UNCHANGED call

\* At a step of 0 minutes the grid of the year grows without end: the
\* process may be killed for the memory it takes before MemoryError is
\* raised, and then the call never returns.
Exhausted ==
    /\ pc = "years"
    /\ ret.year <= ret.end_year
    /\ time_step_of(ret.ds).val = 0
    /\ pc' = "killed"
    /\ UNCHANGED <<call, ret, prev>>

\* return output_files
ReturnFiles ==
    /\ pc = "years"
    /\ ret.year > ret.end_year
    /\ pc' = "done"
    /\ ret' = ExportOk(ret.output_files, ret.io, ret.files) @@ [dirs |-> ret.dirs]
    /\ prev' = ret.files
    /\ UNCHANGED call

NextYears ==
    \/ CheckLevel
    \/ MakeDirs
    \/ ResolveVersion
    \/ OpenDataset
    \/ StartYears
    \/ WriteYear
    \/ Exhausted
    \/ ReturnFiles

SpecYears == InitYears /\ [][NextYears]_vars

YearsDone == pc = "done" /\ call.fn = "export_oneflux_csv"

\* The call ends as export_oneflux_csv taken in one step does.
YearsAgree ==
    YearsDone =>
        [k \in {"ok", "exc", "val", "io", "files"} |-> ret[k]]
            = [k \in {"ok", "exc", "val", "io", "files"} |->
                  export_oneflux_csv(call.srv, call.host, call.outdir, call.site,
                                     call.version, call.processing_level)[k]]

\* The dataset the call exports, once it has opened.
YearsDataset ==
    get_dataset(call.srv, call.site, VersionV, call.processing_level, FALSE).val

\* The first year of the export, and the year that failed when files of
\* earlier years are on disk: one year for every file written before.
YearsFirst ==
    YearOf(TimeData(YearsDataset)[1] - Minutes(time_step_of(YearsDataset).val))

YearsLast ==
    YearOf(TimeData(YearsDataset)[Len(TimeData(YearsDataset))]
           - Minutes(time_step_of(YearsDataset).val))

FailedYear == YearsFirst + Cardinality(DOMAIN prev)

YearPath(year) == CsvFilePath(YearsDataset, year, call.outdir)

\* The call failed in the loop over the years after it wrote a file.
FailedAfterFirstYear ==
    /\ YearsDone
    /\ ~ret.ok
    /\ DOMAIN prev # {}

\* C24: every step of a multi-year export leaves the files already on disk
\* as they are; when the file of year k fails after earlier years were
\* written, the files of the years before k are on disk, each as its year
\* wrote it, no file of a year after k exists, and the caller gets the
\* export error, not a list of paths.
C24_PartialFilesKept ==
    /\ pc \in {"years", "done"} =>
        \A p \in DOMAIN prev : p \in DOMAIN ret.files /\ ret.files[p] = prev[p]
    /\ FailedAfterFirstYear =>
        /\ FailedYear <= YearsLast
        /\ \A y \in YearsFirst..(FailedYear - 1) :
            /\ YearPath(y) \in DOMAIN ret.files
            /\ ret.files[YearPath(y)]
                = write_csv_oneflux_year(YearsDataset, y, call.outdir,
                                         call.host).files[YearPath(y)]
        /\ DOMAIN ret.files \subseteq {YearPath(y) : y \in YearsFirst..FailedYear}
        /\ \A y \in (FailedYear + 1)..YearsLast : YearPath(y) \notin DOMAIN ret.files
        /\ ret.exc = "Exception"
        /\ StartsWith(ret.val, OnefluxErrorPrefix)

\* C24 witness: of three years the second holds a record twice; the export
\* fails in the second year with the file of the first on disk and none of
\* the third.
C24_Witness ==
    /\ FailedAfterFirstYear
    /\ YearsFirst = EpochYear - 1
    /\ FailedYear = EpochYear
    /\ YearsLast = EpochYear + 1
    /\ DOMAIN ret.files = {YearPath(EpochYear - 1)}
    /\ ret.files[YearPath(EpochYear - 1)].nrecs = 17520

(***************************************************************************)
(* SpecTwice: the same dataset is exported twice, at two moments that may  *)
(* lie on either side of a daylight-saving change.  prev keeps what the    *)
(* first export wrote, ret what the second wrote.                          *)
(***************************************************************************)

\* The declared time zones: one without and one with daylight saving, and a
\* name that is no time zone.
ZoneNames == {<<"Australia/Darwin">>, <<"Australia/Sydney">>, <<"Mars/Olympus">>}

TwiceAxes ==
    {<<Jan1(EpochYear) + HalfHour>>,
     <<Jan1(EpochYear) - HalfHour, Jan1(EpochYear)>>,
     <<Jan1(EpochYear - 1) + HalfHour, Jan1(EpochYear) + HalfHour>>}

InitTwice ==
    /\ pc = "call"
    /\ \E zone \in ZoneNames, step \in {Step30, Step60}, times \in TwiceAxes,
          first \in BOOLEAN, second \in BOOLEAN :
        call = [fn |-> "write_csv_oneflux",
                ds |-> ExportFile([ExportAttrs(step) EXCEPT !.time_zone = zone],
                                  times, FileAUrl),
                outdir |-> OutDir,
                host |-> Host(TRUE, TRUE, first),
                later |-> Host(TRUE, TRUE, second)]
    /\ ret = Ok(<<>>)
    /\ prev = NoCall

\* The first export, at the first moment.
ExportFirst ==
    /\ pc = "call"
    /\ call.fn = "write_csv_oneflux"
    /\ "later" \in DOMAIN call
    /\ prev' = write_csv_oneflux(call.ds, call.outdir, call.host)
    /\ pc' = "again"
    /\ UNCHANGED <<call, ret>>

\* The second export of the same dataset, at the later moment.
ExportAgain ==
    /\ pc = "again"
    /\ ret' = write_csv_oneflux(call.ds, call.outdir, call.later)
    /\ pc' = "done"
    /\ UNCHANGED <<call, prev>>

NextTwice == ExportFirst \/ ExportAgain

SpecTwice == InitTwice /\ [][NextTwice]_vars

\* The timezone rows of the files of an export.
TimezoneRows(export) ==
    {export.files[p].rows[5] : p \in {q \in DOMAIN export.files : Len(export.files[q].rows) >= 5}}

\* C25: two exports of the same dataset at any two moments write the same
\* UTC offset in the timezone row and the same files.
C25_SameOffsetAnyMoment ==
    (pc = "done" /\ "later" \in DOMAIN call) =>
        /\ TimezoneRows(ret) = TimezoneRows(prev)
        /\ ret.files = prev.files
        /\ ret.r = prev.r

(***************************************************************************)
(* SpecSheet: one call of xlsx_write_dataset on a dataset some of whose    *)
(* variables carry no attribute.                                           *)
(***************************************************************************)

\* The dataset with the attrs of the named variables emptied.
WithoutVariableAttrs(ds, names) ==
    Dataset(ds.attrs, ds.coords,
            [n \in DOMAIN ds.variables |->
                IF n \in names
                THEN Variable(ds.variables[n].dims, ds.variables[n].data, NoAttrs,
                              ds.variables[n].encoding)
                ELSE ds.variables[n]],
            ds.source)

SheetVariables == {AH, QCFlagOf(AH), Flu, QCFlagOf(Flu), VPD}

InitSheet ==
    /\ pc = "call"
    /\ \E bare \in SUBSET SheetVariables, times \in {TwoTimes, <<>>}, write \in BOOLEAN :
        call = [fn |-> "xlsx_write_dataset",
                ds |-> WithoutVariableAttrs(ExportFile(ExportAttrs(Step30), times, FileAUrl),
                                            bare),
                xlfilename |-> XlsxName, host |-> Host(TRUE, write, FALSE)]
    /\ ret = Ok(<<>>)
    /\ prev = NoCall

XlsxWriteDataset ==
    /\ pc = "call"
    /\ call.fn = "xlsx_write_dataset"
    /\ ret' = xlsx_write_dataset(call.ds, call.xlfilename, call.host)
    /\ pc' = "done"
    /\ UNCHANGED <<call, prev>>

NextSheet == XlsxWriteDataset

SpecSheet == InitSheet /\ [][NextSheet]_vars

\* The rows of the Attr sheet of the workbook written whose column 0 holds
\* the name.
NameRows(name) ==
    {c[1] : c \in {d \in DOMAIN ret.files[call.xlfilename].Attr :
                      d[2] = 0 /\ ret.files[call.xlfilename].Attr[d] = name}}

\* C26: in the Attr sheet of a workbook written, every variable of the
\* dataset other than crs and station_name has its name in column 0 of a
\* row, whatever attributes the variables carry.
C26_NameRowPerVariable ==
    (pc = "done" /\ call.fn = "xlsx_write_dataset" /\ ret.r.ok) =>
        \A name \in DataVariableNames(call.ds) : NameRows(name) # {}

\* The call names a processing level other than 'L3' and 'L4'.
InvalidLevel ==
    /\ call.fn = "export_oneflux_csv"
    /\ call.processing_level \notin {<<"L","3">>, <<"L","4">>}

\* C27: export_oneflux_csv with a processing level other than 'L3' or 'L4'
\* fails with the export error 'Invalid processing level ...' and does
\* nothing before: no folder is created, no request is made for the version
\* catalog or the dataset, and no file is written, at any step of the call.
C27_InvalidLevelNoEffect ==
    InvalidLevel =>
        /\ pc \in {"call", "done"}
        /\ ret.dirs = {}
        /\ ret.io = <<>>
        /\ ret.files = NoFiles
        /\ pc = "done" =>
            /\ ~ret.ok
            /\ ret.exc = "Exception"
            /\ ret.val = <<"Export dataset in oneflux format failed: ",
                           "Invalid processing level ">>
                         \o call.processing_level
                         \o <<": only available for L3 or L4.">>

\* C27 witness: level L6 with a folder that could be created, no version
\* given and a server that lists versions: the call has failed.
C27_Witness ==
    /\ YearsDone
    /\ call.processing_level = L6
    /\ call.outdir = OutDir
    /\ call.host.mkdir
    /\ call.version = None
    /\ call.srv = ListingServer(<<V2, V10>>)
    /\ ~ret.ok
    /\ ret.dirs = {}

\* The order the levels are to be tried in.
LookupLevels == <<<<"L","6">>, <<"L","5">>, <<"L","4">>, <<"L","3">>>>

\* The latest version of a site, and its dataset at the j-th level.
LookupVersion(site) == resolve_version(call.srv, site, None)

LevelOpen(site, j) ==
    get_dataset(call.srv, site, LookupVersion(site).val, LookupLevels[j], FALSE)

\* The levels of a site whose dataset opens, and those whose dataset opens
\* and holds a data variable.
OpenLevels(site) == {j \in 1..Len(LookupLevels) : LevelOpen(site, j).ok}

UsableLevels(site) == {j \in OpenLevels(site) : DatasetTruthy(LevelOpen(site, j).val)}

\* The requests of the levels 1..j, in order.
RECURSIVE LevelsIo(_, _)
LevelsIo(site, j) == IF j = 0 THEN <<>> ELSE LevelsIo(site, j - 1) \o LevelOpen(site, j).io

\* The lookup made the requests of the levels up to j and no other, and
\* its row is taken from the dataset of level j.
LookupThrough(site, result, upto, from) ==
    /\ result.ok
    /\ result.io = LookupVersion(site).io \o LevelsIo(site, upto)
    /\ result.val.site = site
    /\ result.val.canopy_height = LevelOpen(site, from).val.attrs.canopy_height
    /\ result.val.vegetation = LevelOpen(site, from).val.attrs.vegetation
    /\ result.val.longitude = LevelOpen(site, from).val.variables[<<"longitude">>].data[1][1]
    /\ result.val.latitude = LevelOpen(site, from).val.variables[<<"latitude">>].data[1][1]

Greatest(S) == CHOOSE x \in S : \A y \in S : y <= x

\* The lookups that have finished when map returns, by task.
FinishedLookups == IF PoolDone /\ DOMAIN prev # {} THEN DOMAIN prev.locations ELSE {}

OnGridExport ==
    /\ WriteCsvDone
    /\ "later" \notin DOMAIN call
    /\ ret.r.ok
    /\ "time_step" \in DOMAIN call.ds.attrs
    /\ call.ds.attrs.time_step \in {Step30, Step60}
    /\ Len(TimeData(call.ds)) > 0
    /\ StrictlyIncreasing(TimeData(call.ds))
    /\ \A t \in Range(TimeData(call.ds)) : (t - Jan1(EpochYear)) % CallStep = 0

\* The file of a year, and the instants its rows carry a record for.
FileOfYear(year) == ret.files[CsvFilePath(call.ds, year, call.outdir)]

RecordStamps(year) ==
    {Jan1(year) + (n + 1) * CallStep : n \in DOMAIN FileOfYear(year).table.arrays}

\* C29: for a strictly increasing time axis on the grid of the nominal
\* step the yearly files of one export partition the records: the grid of a
\* year ends on Jan 1 00:00 of the next year, where the first row of the
\* next file starts, so the grids of different years are disjoint; every
\* timestamp of the dataset is the end of a row with a record in exactly
\* one file, and no other row carries a record.
C29_YearsPartition ==
    OnGridExport =>
        /\ \A y \in FirstYear..LastYear :
            /\ FileOfYear(y).table.year = y
            /\ DOMAIN FileOfYear(y).table.arrays \subseteq 0..(FileOfYear(y).nrecs - 1)
            /\ DataRow(FileOfYear(y).table, 0)[1] = FormatStamp(Jan1(y))
            /\ DataRow(FileOfYear(y).table, FileOfYear(y).nrecs - 1)[2]
                = FormatStamp(Jan1(y + 1))
            /\ y < LastYear =>
                DataRow(FileOfYear(y + 1).table, 0)[1]
                    = DataRow(FileOfYear(y).table, FileOfYear(y).nrecs - 1)[2]
        /\ \A t \in Range(TimeData(call.ds)) :
            Cardinality({y \in FirstYear..LastYear : t \in RecordStamps(y)}) = 1
        /\ UNION {RecordStamps(y) : y \in FirstYear..LastYear} = Range(TimeData(call.ds))

\* C29 witness: records on Jan 1 00:00 of the epoch year and half an hour
\* later go to the last row of the file of the year before and to the
\* first row of the file of the epoch year.
C29_Witness ==
    /\ OnGridExport
    /\ TimeData(call.ds) = <<Jan1(EpochYear), Jan1(EpochYear) + HalfHour>>
    /\ FirstYear = EpochYear - 1
    /\ LastYear = EpochYear
    /\ DOMAIN FileOfYear(EpochYear - 1).table.arrays = {FileOfYear(EpochYear - 1).nrecs - 1}
    /\ DOMAIN FileOfYear(EpochYear).table.arrays = {0}

\* The file the call exports, as the server holds it.
ExportedFile == call.srv.files[FileAUrl]

\* export_oneflux_csv has ended for a dataset that is exported without
\* failure at 30 minutes and declares another whole number of minutes.
OddStepExport ==
    /\ pc \in {"done", "killed"}
    /\ IsYearsCall(call)
    /\ call.host.write
    /\ \E step \in {Step15, <<"0">>, <<"7">>} : ExportedFile.attrs = ExportAttrs(step)
    /\ Len(TimeData(ExportedFile)) > 0
    /\ StrictlyIncreasing(TimeData(ExportedFile))

\* C30: for a declared time_step that is a whole number other than 30 and
\* 60 the export fails with the export error after the file of the first
\* year was created and its rows up to 'htower' written; that file, without
\* 'timeres' row, header and data rows, is left on disk and no file of a
\* later year is created.
C30_TruncatedFirstFile ==
    OddStepExport =>
        /\ pc = "done"
        /\ ~ret.ok
        /\ ret.exc = "Exception"
        /\ StartsWith(ret.val, OnefluxErrorPrefix)
        /\ DOMAIN ret.files = {YearPath(YearsFirst)}
        /\ Len(ret.files[YearPath(YearsFirst)].rows) = 6
        /\ ret.files[YearPath(YearsFirst)].rows[6][1] = <<"htower">>
        /\ ret.files[YearPath(YearsFirst)].nrecs = 0

====
